---- MODULE Spec2Model ----
(***************************************************************************)
(* A model of the QR code generator's cache store, configuration identity  *)
(* and generation use case (api-gen-qr-code).                               *)
(*                                                                          *)
(* Strings the code inspects character by character (cache keys, colours,  *)
(* sizes, formats, payloads) are sequences of one-character strings, so    *)
(* that parsing, formatting and encoding are computed and not assumed.     *)
(*                                                                           *)
(***************************************************************************)
EXTENDS Integers, Sequences, FiniteSets, TLC

VARIABLES
    now,        \* Date.now(), in milliseconds
    ticks,      \* how often the clock has advanced
    maxKeys,    \* InMemoryCacheRepository.maxKeys
    cache,      \* InMemoryCacheRepository.cache: the Map's entries in insertion order
    stats,      \* InMemoryCacheRepository.stats
    nops,       \* number of repository operations performed so far
    last,       \* the last repository operation: its name, arguments and result
    lastSet,    \* per key: the arguments of the latest set() not yet undone by
                \* a delete, a clear or an eviction of that key
    reqA,       \* a request object (QRCodeRequestDTO)
    reqB,       \* a second request object
    outA,       \* what validation, buildConfiguration and getHashKey make of reqA
    outB,       \* the same for reqB
    edits,      \* number of property assignments made to the two requests
    execs,      \* the calls of GenerateQRCodeUseCase.execute: where each stands,
                \* its locals and its response
    nextId,     \* the identifiers uuidv4() has not handed out yet start here
    metrics,    \* the counters of the IMetricsCollector
    requests,   \* the Map of the rate limiter: per client its count and resetTime
    served,     \* per client: the times at which the rate limiter admitted its requests
    arrivals,   \* number of HTTP requests that have arrived so far
    reply       \* the latest HTTP request and the response it was given

storeVars == <<now, ticks, maxKeys, cache, stats, nops, last, lastSet>>

keyVars == <<reqA, reqB, outA, outB, edits>>

execVars == <<execs, nextId, metrics>>

rateVars == <<requests, served, arrivals, reply>>

vars == <<storeVars, keyVars, execVars, rateVars>>

----------------------------------------------------------------------------
(* Bounds of the model *)

MaxTicks == 2
MaxOps == 3
MaxKeysBound == 2
MaxEdits == 2
MaxExecs == 3
MaxClears == 1
MaxAssigns == 3
MaxColorBody == 6

(* Program constants *)

DefaultTTL == 3600
UseCaseDefaultTTL == 3600
MsPerSecond == 1000

----------------------------------------------------------------------------
(* JavaScript values *)

\* An optional argument or property is a record: def says whether it is defined
\* and v holds its value (a number, or a string as a sequence of characters).
NoNum == [def |-> FALSE, v |-> 0]
Num(n) == [def |-> TRUE, v |-> n]
NoStr == [def |-> FALSE, v |-> <<>>]
Str(s) == [def |-> TRUE, v |-> s]

\* a string property that holds null
NullStr == [def |-> FALSE, v |-> <<>>, null |-> TRUE]

\* null, where an object is expected
Null == [null |-> TRUE]

\* what a void function returns
Void == [void |-> TRUE]

\* truthiness of a string: the empty string is falsy
TruthyStr(s) == Len(s) > 0

\* truthiness of an optional string: undefined and the empty string are falsy
Truthy(o) == o.def /\ Len(o.v) > 0

\* truthiness of an optional number: undefined and 0 are falsy
TruthyNum(o) == o.def /\ o.v # 0

----------------------------------------------------------------------------
(* Characters and strings.  A string is a sequence of characters; a        *)
(* character is a one-character string, or the name of a character outside *)
(* ASCII: "EACUTE" is U+00E9 and "EURO" is U+20AC.  The double quote and   *)
(* the backslash go by the names "DQUOTE" and "BACKSLASH", the grave       *)
(* accent by "BACKTICK".                                                   *)

\* the printable ASCII characters, from code 32 (space) to code 126
Ascii ==
    <<
    " ", "!", "DQUOTE", "#", "$", "%", "&", "'", "(", ")", "*", "+", ",", "-", ".", "/",
    "0", "1", "2", "3", "4", "5", "6", "7", "8", "9", ":", ";", "<", "=", ">", "?",
    "@", "A", "B", "C", "D", "E", "F", "G", "H", "I", "J", "K", "L", "M", "N", "O",
    "P", "Q", "R", "S", "T", "U", "V", "W", "X", "Y", "Z", "[", "BACKSLASH", "]", "^", "_",
    "BACKTICK", "a", "b", "c", "d", "e", "f", "g", "h", "i", "j", "k", "l", "m", "n", "o",
    "p", "q", "r", "s", "t", "u", "v", "w", "x", "y", "z", "{", "|", "}", "~" >>

\* String.prototype.charCodeAt
CharCode(ch) ==
    IF ch = "EACUTE" THEN 233
    ELSE IF ch = "EURO" THEN 8364
    ELSE 31 + (CHOOSE i \in 1..Len(Ascii) : Ascii[i] = ch)

IsUpperChar(ch) == CharCode(ch) >= 65 /\ CharCode(ch) <= 90

IsLowerChar(ch) == CharCode(ch) >= 97 /\ CharCode(ch) <= 122

IsDigitChar(ch) == CharCode(ch) >= 48 /\ CharCode(ch) <= 57

ToLowerChar(ch) == IF IsUpperChar(ch) THEN Ascii[CharCode(ch) + 32 - 31] ELSE ch

ToUpperChar(ch) == IF IsLowerChar(ch) THEN Ascii[CharCode(ch) - 32 - 31] ELSE ch

\* String.prototype.toLowerCase / toUpperCase
ToLowerCase(s) == [i \in 1..Len(s) |-> ToLowerChar(s[i])]

ToUpperCase(s) == [i \in 1..Len(s) |-> ToUpperChar(s[i])]

\* the value of a character as a digit of the radix, or -1
DigitValue(ch, radix) ==
    LET code == CharCode(ch)
        v == IF code >= 48 /\ code <= 57 THEN code - 48
             ELSE IF code >= 97 /\ code <= 122 THEN code - 97 + 10
             ELSE IF code >= 65 /\ code <= 90 THEN code - 65 + 10
             ELSE -1
    IN  IF v >= 0 /\ v < radix THEN v ELSE -1

IsWhiteSpace(ch) == ch = " "

\* String.prototype.trim
TrimStart(s) ==
    IF \A i \in 1..Len(s) : IsWhiteSpace(s[i]) THEN <<>>
    ELSE SubSeq(s, CHOOSE i \in 1..Len(s) :
                       /\ ~IsWhiteSpace(s[i])
                       /\ \A j \in 1..(i - 1) : IsWhiteSpace(s[j]),
                Len(s))

TrimEnd(s) ==
    IF \A i \in 1..Len(s) : IsWhiteSpace(s[i]) THEN <<>>
    ELSE SubSeq(s, 1, CHOOSE i \in 1..Len(s) :
                          /\ ~IsWhiteSpace(s[i])
                          /\ \A j \in (i + 1)..Len(s) : IsWhiteSpace(s[j]))

Trim(s) == TrimEnd(TrimStart(s))

\* String.prototype.startsWith
StartsWith(s, prefix) ==
    Len(s) >= Len(prefix) /\ SubSeq(s, 1, Len(prefix)) = prefix

\* String.prototype.includes, for one character
IncludesChar(s, ch) == \E i \in 1..Len(s) : s[i] = ch

\* String.prototype.split, for a one-character separator
RECURSIVE SplitFrom(_, _, _)
SplitFrom(s, sep, part) ==
    IF Len(s) = 0 THEN <<part>>
    ELSE IF s[1] = sep THEN <<part>> \o SplitFrom(Tail(s), sep, <<>>)
    ELSE SplitFrom(Tail(s), sep, Append(part, s[1]))

Split(s, sep) == SplitFrom(s, sep, <<>>)

\* Array.prototype.join
RECURSIVE Join(_, _)
Join(parts, sep) ==
    IF Len(parts) = 0 THEN <<>>
    ELSE IF Len(parts) = 1 THEN parts[1]
    ELSE parts[1] \o sep \o Join(Tail(parts), sep)

\* the digits parseInt consumes: the longest prefix of digits of the radix
RECURSIVE DigitsValue(_, _, _, _)
DigitsValue(s, radix, acc, seen) ==
    IF Len(s) = 0 \/ DigitValue(s[1], radix) < 0
    THEN [nan |-> ~seen, v |-> acc]
    ELSE DigitsValue(Tail(s), radix, acc * radix + DigitValue(s[1], radix), TRUE)

\* parseInt on the string without its leading white space
ParseIntTrimmed(t, radix, d) ==
    [nan |-> d.nan, v |-> IF Len(t) > 0 /\ t[1] = "-" THEN 0 - d.v ELSE d.v]

Unsigned(t) == IF Len(t) > 0 /\ (t[1] = "-" \/ t[1] = "+") THEN Tail(t) ELSE t

ParseIntFrom(t, radix) == ParseIntTrimmed(t, radix, DigitsValue(Unsigned(t), radix, 0, FALSE))

\* parseInt(s, radix): leading white space and a sign are skipped, parsing
\* stops at the first character that is no digit, NaN when no digit was read
ParseInt(s, radix) == ParseIntFrom(TrimStart(s), radix)

\* Number.prototype.toString(radix) of a non-negative integer
RECURSIVE NatToString(_, _)
NatToString(n, radix) ==
    LET digit == IF n % radix < 10
                 THEN Ascii[48 + (n % radix) - 31]
                 ELSE Ascii[97 + (n % radix) - 10 - 31]
    IN  IF n < radix THEN <<digit>> ELSE Append(NatToString(n \div radix, radix), digit)

\* Number.prototype.toString(radix) of an integer
NumToString(n, radix) ==
    IF n < 0 THEN <<"-">> \o NatToString(0 - n, radix) ELSE NatToString(n, radix)

\* String.prototype.padStart
RECURSIVE PadStart(_, _, _)
PadStart(s, width, ch) ==
    IF Len(s) >= width THEN s ELSE PadStart(<<ch>> \o s, width, ch)

\* the UTF-8 encoding of one character, as Buffer.from(string) encodes it
Utf8Char(ch) ==
    LET code == CharCode(ch)
    IN  IF code < 128 THEN <<code>>
        ELSE IF code < 2048 THEN <<192 + (code \div 64), 128 + (code % 64)>>
        ELSE <<224 + (code \div 4096), 128 + ((code \div 64) % 64), 128 + (code % 64)>>

RECURSIVE Utf8(_)
Utf8(s) == IF Len(s) = 0 THEN <<>> ELSE Utf8Char(s[1]) \o Utf8(Tail(s))

Base64Alphabet ==
    <<
    "A", "B", "C", "D", "E", "F", "G", "H", "I", "J", "K", "L", "M", "N", "O", "P",
    "Q", "R", "S", "T", "U", "V", "W", "X", "Y", "Z", "a", "b", "c", "d", "e", "f",
    "g", "h", "i", "j", "k", "l", "m", "n", "o", "p", "q", "r", "s", "t", "u", "v",
    "w", "x", "y", "z", "0", "1", "2", "3", "4", "5", "6", "7", "8", "9", "+", "/" >>

\* Buffer.prototype.toString('base64')
RECURSIVE Base64(_)
Base64(bytes) ==
    LET c(n) == Base64Alphabet[n + 1]
    IN  IF Len(bytes) = 0 THEN <<>>
        ELSE IF Len(bytes) = 1
        THEN <<c(bytes[1] \div 4), c((bytes[1] % 4) * 16), "=", "=">>
        ELSE IF Len(bytes) = 2
        THEN <<c(bytes[1] \div 4),
               c((bytes[1] % 4) * 16 + (bytes[2] \div 16)),
               c((bytes[2] % 16) * 4),
               "=">>
        ELSE <<c(bytes[1] \div 4),
               c((bytes[1] % 4) * 16 + (bytes[2] \div 16)),
               c((bytes[2] % 16) * 4 + (bytes[3] \div 64)),
               c(bytes[3] % 64)>> \o Base64(SubSeq(bytes, 4, Len(bytes)))

----------------------------------------------------------------------------
(* Value objects.  A factory that may throw returns [ok, v]: ok = FALSE    *)
(* stands for the thrown Error, and v is then a placeholder.               *)

Thrown(placeholder) == [ok |-> FALSE, v |-> placeholder]
Made(value) == [ok |-> TRUE, v |-> value]

(* Size *)

SizeMin == 10
SizeMax == 1000

AllDigits(s) == Len(s) > 0 /\ \A i \in 1..Len(s) : IsDigitChar(s[i])

NoSize == [width |-> 0, height |-> 0]

SizeCreate(width, height) ==
    IF width < SizeMin \/ width > SizeMax THEN Thrown(NoSize)
    ELSE IF height < SizeMin \/ height > SizeMax THEN Thrown(NoSize)
    ELSE Made([width |-> width, height |-> height])

SizeFromParts(parts) ==
    IF Len(parts) = 2 /\ AllDigits(parts[1]) /\ AllDigits(parts[2])
    THEN SizeCreate(ParseInt(parts[1], 10).v, ParseInt(parts[2], 10).v)
    ELSE Thrown(NoSize)

\* Size.fromString: /^(\d+)x(\d+)$/i, then parseInt of both groups
SizeFromString(sizeStr) == SizeFromParts(Split(ToLowerCase(sizeStr), "x"))

SizeDefault == [width |-> 200, height |-> 200]

SizeToString(size) ==
    NumToString(size.width, 10) \o <<"x">> \o NumToString(size.height, 10)

(* OutputFormat *)

OutputFormats == {<<"p", "n", "g">>, <<"g", "i", "f">>, <<"j", "p", "e", "g">>, <<"j", "p", "g">>, <<"s", "v", "g">>, <<"e", "p", "s">>}

OutputFormatCreate(format) ==
    IF ToLowerCase(format) \in OutputFormats
    THEN Made(ToLowerCase(format))
    ELSE Thrown(<<>>)

OutputFormatDefault == <<"p", "n", "g">>

(* ErrorCorrectionLevel *)

ErrorCorrectionLevels == {<<"L">>, <<"M">>, <<"Q">>, <<"H">>}

ErrorCorrectionLevelCreate(level) ==
    IF ToUpperCase(level) \in ErrorCorrectionLevels
    THEN Made(ToUpperCase(level))
    ELSE Thrown(<<>>)

ErrorCorrectionLevelDefault == <<"L">>

(* ColorValue *)

NoColor == [r |-> 0, g |-> 0, b |-> 0]

ColorBlack == [r |-> 0, g |-> 0, b |-> 0]

ColorWhite == [r |-> 255, g |-> 255, b |-> 255]

\* validateRGBComponent does not throw
RGBComponentValid(value) == value >= 0 /\ value <= 255

\* hex.replace('#', ''): the first '#' is removed
RECURSIVE RemoveFirst(_, _)
RemoveFirst(s, ch) ==
    IF Len(s) = 0 THEN <<>>
    ELSE IF s[1] = ch THEN Tail(s)
    ELSE <<s[1]>> \o RemoveFirst(Tail(s), ch)

\* the isNaN test of parseHexColor and parseRGBString on the three components
RGBOfParsed(r, g, b) ==
    IF r.nan \/ g.nan \/ b.nan THEN Thrown(NoColor)
    ELSE Made([r |-> r.v, g |-> g.v, b |-> b.v])

\* a parseHexColor that reads the digits of the short form singly
ParseCleanHexSingly(cleanHex) ==
    IF Len(cleanHex) = 3
    THEN RGBOfParsed(ParseInt(<<cleanHex[1]>>, 16),
                     ParseInt(<<cleanHex[2]>>, 16),
                     ParseInt(<<cleanHex[3]>>, 16))
    ELSE IF Len(cleanHex) = 6
    THEN RGBOfParsed(ParseInt(SubSeq(cleanHex, 1, 2), 16),
                     ParseInt(SubSeq(cleanHex, 3, 4), 16),
                     ParseInt(SubSeq(cleanHex, 5, 6), 16))
    ELSE Thrown(NoColor)

\* parseHexColor after the replace: 3 or 6 characters are read with
\* parseInt(.., 16), which is content with a sign or a digit prefix
ParseCleanHex(cleanHex) ==
    IF Len(cleanHex) = 3
    THEN RGBOfParsed(ParseInt(<<cleanHex[1], cleanHex[1]>>, 16),
                     ParseInt(<<cleanHex[2], cleanHex[2]>>, 16),
                     ParseInt(<<cleanHex[3], cleanHex[3]>>, 16))
    ELSE IF Len(cleanHex) = 6
    THEN RGBOfParsed(ParseInt(SubSeq(cleanHex, 1, 2), 16),
                     ParseInt(SubSeq(cleanHex, 3, 4), 16),
                     ParseInt(SubSeq(cleanHex, 5, 6), 16))
    ELSE Thrown(NoColor)

ParseHexColor(hex) == ParseCleanHex(RemoveFirst(hex, "#"))

\* validateRGBComponent on the three components of parseRGBString
RGBValidated(rgb) ==
    IF ~rgb.ok THEN rgb
    ELSE IF ~RGBComponentValid(rgb.v.r) \/ ~RGBComponentValid(rgb.v.g)
            \/ ~RGBComponentValid(rgb.v.b)
    THEN Thrown(NoColor)
    ELSE rgb

\* parseRGBString after the split
ParseRGBParts(parts) ==
    IF Len(parts) # 3 THEN Thrown(NoColor)
    ELSE RGBValidated(RGBOfParsed(ParseInt(parts[1], 10), ParseInt(parts[2], 10),
                                  ParseInt(parts[3], 10)))

ParseRGBString(rgbStr) == ParseRGBParts(Split(rgbStr, "-"))

IsHexChar(ch) == DigitValue(ch, 16) >= 0

\* a pattern that knows the long form only
IsBareHexLong(s) == Len(s) = 6 /\ \A i \in 1..Len(s) : IsHexChar(s[i])

\* /^[0-9a-fA-F]{3}$|^[0-9a-fA-F]{6}$/
IsBareHex(s) == (Len(s) = 3 \/ Len(s) = 6) /\ \A i \in 1..Len(s) : IsHexChar(s[i])

\* ColorValue.create, that is parseColor
ColorCreate(colorInput) ==
    IF StartsWith(colorInput, <<"#">>) THEN ParseHexColor(colorInput)
    ELSE IF IncludesChar(colorInput, "-") THEN ParseRGBString(colorInput)
    ELSE IF IsBareHex(colorInput) THEN ParseHexColor(<<"#">> \o colorInput)
    ELSE Thrown(NoColor)

\* toHex: each component as toString(16).padStart(2, '0')
ColorToHex(color) ==
    <<"#">> \o PadStart(NumToString(color.r, 16), 2, "0")
            \o PadStart(NumToString(color.g, 16), 2, "0")
            \o PadStart(NumToString(color.b, 16), 2, "0")

ColorToString(color) == ColorToHex(color)

\* the sRGB linearisation of getLuminance for each component value 0..255,
\* in units of 1/100000 (rounded)
LinearTable ==
    <<
    0, 30, 61, 91, 121, 152, 182, 212, 243, 273, 304, 335,
    368, 402, 439, 478, 518, 561, 605, 651, 700, 750, 802, 857,
    913, 972, 1033, 1096, 1161, 1229, 1298, 1370, 1444, 1521, 1600, 1681,
    1764, 1850, 1938, 2029, 2122, 2217, 2315, 2416, 2519, 2624, 2732, 2843,
    2956, 3071, 3190, 3310, 3434, 3560, 3689, 3820, 3955, 4092, 4231, 4374,
    4519, 4667, 4817, 4971, 5127, 5286, 5448, 5613, 5781, 5951, 6125, 6301,
    6480, 6663, 6848, 7036, 7227, 7421, 7619, 7819, 8022, 8228, 8438, 8650,
    8866, 9084, 9306, 9531, 9759, 9990, 10224, 10462, 10702, 10946, 11193, 11444,
    11697, 11954, 12214, 12477, 12744, 13014, 13287, 13563, 13843, 14126, 14413, 14703,
    14996, 15293, 15593, 15896, 16203, 16513, 16827, 17144, 17465, 17789, 18116, 18447,
    18782, 19120, 19462, 19807, 20156, 20508, 20864, 21223, 21586, 21953, 22323, 22697,
    23074, 23455, 23840, 24228, 24620, 25016, 25415, 25818, 26225, 26636, 27050, 27468,
    27889, 28315, 28744, 29177, 29614, 30054, 30499, 30947, 31399, 31855, 32314, 32778,
    33245, 33716, 34191, 34670, 35153, 35640, 36131, 36625, 37124, 37626, 38133, 38643,
    39157, 39676, 40198, 40724, 41254, 41789, 42327, 42869, 43415, 43966, 44520, 45079,
    45641, 46208, 46778, 47353, 47932, 48515, 49102, 49693, 50289, 50888, 51492, 52100,
    52712, 53328, 53948, 54572, 55201, 55834, 56471, 57112, 57758, 58408, 59062, 59720,
    60383, 61050, 61721, 62396, 63076, 63760, 64448, 65141, 65837, 66539, 67244, 67954,
    68669, 69387, 70110, 70838, 71569, 72306, 73046, 73791, 74540, 75294, 76052, 76815,
    77582, 78354, 79130, 79910, 80695, 81485, 82279, 83077, 83880, 84687, 85499, 86316,
    87137, 87962, 88792, 89627, 90466, 91310, 92158, 93011, 93869, 94731, 95597, 96469,
    97345, 98225, 99110, 100000 >>

\* getLuminance, in units of 10^-9; a component outside 0..255 is read as
\* the nearest bound
Luminance(color) ==
    LET lin(c) == LinearTable[(IF c < 0 THEN 0 ELSE IF c > 255 THEN 255 ELSE c) + 1]
    IN  2126 * lin(color.r) + 7152 * lin(color.g) + 722 * lin(color.b)

\* hasAccessibleContrast: (lighter + 0.05) / (darker + 0.05) >= 3.0, that is
\* lighter - 3 * darker >= 0.1, which needs darker <= 0.3
HasAccessibleContrast(color, other) ==
    LET l1 == Luminance(color)
        l2 == Luminance(other)
        lighter == IF l1 >= l2 THEN l1 ELSE l2
        darker == IF l1 >= l2 THEN l2 ELSE l1
    IN  darker <= 300000000 /\ lighter - 3 * darker >= 100000000

(* DataPayload *)

MaxDataLength == 900

\* the part of a URL between "//" and the next "/", "?" or "#"
HostPrefix(s) ==
    IF \A i \in 1..Len(s) : s[i] \notin {"/", "?", "#"} THEN s
    ELSE SubSeq(s, 1, (CHOOSE i \in 1..Len(s) :
                           /\ s[i] \in {"/", "?", "#"}
                           /\ \A j \in 1..(i - 1) : s[j] \notin {"/", "?", "#"}) - 1)

RECURSIVE AfterScheme(_)
AfterScheme(s) ==
    IF Len(s) < 3 THEN <<>>
    ELSE IF SubSeq(s, 1, 3) = <<":", "/", "/">> THEN SubSeq(s, 4, Len(s))
    ELSE AfterScheme(Tail(s))

\* new URL(s) does not throw, for s starting with http://, https:// or
\* ftp://: the host is not empty and holds no space
UrlParses(s) ==
    LET host == HostPrefix(AfterScheme(s))
    IN  Len(host) > 0 /\ ~IncludesChar(host, " ")

DataIsUrl(content) ==
    \/ StartsWith(content, <<"h", "t", "t", "p", ":", "/", "/">>)
    \/ StartsWith(content, <<"h", "t", "t", "p", "s", ":", "/", "/">>)
    \/ StartsWith(content, <<"f", "t", "p", ":", "/", "/">>)

\* a length check that turns away the longest payload allowed
DataPayloadCreateShort(data) ==
    IF ~Truthy(data) \/ Len(Trim(data.v)) = 0 THEN Thrown(<<>>)
    ELSE IF Len(data.v) >= MaxDataLength THEN Thrown(<<>>)
    ELSE IF DataIsUrl(data.v) /\ ~UrlParses(data.v) THEN Thrown(<<>>)
    ELSE Made(Trim(data.v))

\* the message of the Error DataPayload.create throws, "" when it throws none
DataPayloadMessage(data) ==
    IF ~Truthy(data) \/ Len(Trim(data.v)) = 0 THEN "Data content cannot be empty"
    ELSE IF Len(data.v) > MaxDataLength THEN "Data content cannot exceed 900 characters"
    ELSE IF DataIsUrl(data.v) /\ ~UrlParses(data.v) THEN "Invalid URL format in data content"
    ELSE ""

\* DataPayload.create; the payload is its trimmed content
DataPayloadCreate(data) ==
    IF ~Truthy(data) \/ Len(Trim(data.v)) = 0 THEN Thrown(<<>>)
    ELSE IF Len(data.v) > MaxDataLength THEN Thrown(<<>>)
    ELSE IF DataIsUrl(data.v) /\ ~UrlParses(data.v) THEN Thrown(<<>>)
    ELSE Made(Trim(data.v))

GetComplexityLevel(content) ==
    IF Len(content) <= 100 THEN "low"
    ELSE IF Len(content) <= 400 THEN "medium"
    ELSE "high"

IsCompatibleWithCharset(content, charset) ==
    IF ToUpperCase(charset) = <<"I", "S", "O", "-", "8", "8", "5", "9", "-", "1">>
    THEN \A i \in 1..Len(content) : CharCode(content[i]) <= 255
    ELSE TRUE

(* Logo *)

PredefinedLogos == {<<"g", "o", "o", "g", "l", "e">>, <<"f", "a", "c", "e", "b", "o", "o", "k">>, <<"t", "w", "i", "t", "t", "e", "r">>, <<"l", "i", "n", "k", "e", "d", "i", "n">>, <<"g", "i", "t", "h", "u", "b">>, <<"a", "p", "p", "l", "e">>}

NoLogo == [source |-> <<>>, size |-> 0, margin |-> 0]

\* Logo.isUrl: new URL(source) parses with protocol http: or https:
LogoIsUrl(source) ==
    /\ \/ StartsWith(ToLowerCase(source), <<"h", "t", "t", "p", ":", "/", "/">>)
       \/ StartsWith(ToLowerCase(source), <<"h", "t", "t", "p", "s", ":", "/", "/">>)
    /\ UrlParses(source)

RECURSIVE PathPrefix(_)
PathPrefix(s) ==
    IF Len(s) = 0 \/ s[1] \in {"?", "#"} THEN <<>>
    ELSE <<s[1]>> \o PathPrefix(Tail(s))

EndsWith(s, suffix) ==
    Len(s) >= Len(suffix) /\ SubSeq(s, Len(s) - Len(suffix) + 1, Len(s)) = suffix

\* Logo.validateUrl does not throw
LogoUrlValid(source) ==
    LET rest == AfterScheme(source)
        hostname == ToLowerCase(HostPrefix(rest))
        path == ToLowerCase(PathPrefix(SubSeq(rest, Len(HostPrefix(rest)) + 1, Len(rest))))
    IN  /\ hostname # <<"l", "o", "c", "a", "l", "h", "o", "s", "t">>
        /\ hostname # <<"1", "2", "7", ".", "0", ".", "0", ".", "1">>
        /\ ~StartsWith(hostname, <<"1", "9", "2", ".", "1", "6", "8", ".">>)
        /\ ~StartsWith(hostname, <<"1", "0", ".">>)
        /\ ~StartsWith(hostname, <<"1", "7", "2", ".">>)
        /\ \E ext \in {<<".", "p", "n", "g">>, <<".", "j", "p", "g">>, <<".", "j", "p", "e", "g">>, <<".", "s", "v", "g">>} :
               EndsWith(path, ext)

LogoIsPredefined(source) == ToLowerCase(source) \in PredefinedLogos

\* Logo.validateSource
LogoValidateSource(source) ==
    LET trimmedSource == Trim(source)
    IN  IF Len(trimmedSource) = 0 THEN Thrown(<<>>)
        ELSE IF LogoIsUrl(trimmedSource)
        THEN (IF LogoUrlValid(trimmedSource) THEN Made(trimmedSource) ELSE Thrown(<<>>))
        ELSE IF LogoIsPredefined(trimmedSource) THEN Made(trimmedSource)
        ELSE Thrown(<<>>)

\* Logo.create(source, size, margin): size || 50, margin ?? 5
LogoCreate(source, size, margin) ==
    LET src == LogoValidateSource(source)
        sz == IF TruthyNum(size) THEN size.v ELSE 50
        mg == IF margin.def THEN margin.v ELSE 5
    IN  IF ~src.ok THEN Thrown(NoLogo)
        ELSE IF sz < 10 \/ sz > 200 THEN Thrown(NoLogo)
        ELSE IF mg < 0 \/ mg > 50 THEN Thrown(NoLogo)
        ELSE Made([source |-> src.v, size |-> sz, margin |-> mg])

----------------------------------------------------------------------------
(* QRCodeRequestDTO: an object, that is its properties in insertion order, *)
(* each a pair of a name and an optional value.                            *)

StringProps == {"data", "size", "format", "ecc", "color", "bgcolor",
                "charset-source", "charset-target", "logo"}

NumberProps == {"margin", "qzone", "logo_size", "logo_margin"}

\* request[name]: undefined when the object has no such property
Prop(request, name) ==
    IF \E i \in 1..Len(request) : request[i][1] = name
    THEN request[CHOOSE i \in 1..Len(request) : request[i][1] = name][2]
    ELSE IF name \in NumberProps THEN NoNum ELSE NoStr

(* QRCodeConfiguration *)

SupportedCharsets == {<<"U", "T", "F", "-", "8">>, <<"I", "S", "O", "-", "8", "8", "5", "9", "-", "1">>}

NoConfiguration ==
    [data |-> <<>>, size |-> NoSize, format |-> <<>>, errorCorrectionLevel |-> <<>>,
     foregroundColor |-> NoColor, backgroundColor |-> NoColor, margin |-> 0,
     quietZone |-> 0, charsetSource |-> <<>>, charsetTarget |-> <<>>]

\* validateMargin and validateQuietZone do not throw
MarginValid(margin) == ~margin.def \/ (margin.v >= 0 /\ margin.v <= 50)

QuietZoneValid(quietZone) == ~quietZone.def \/ (quietZone.v >= 0 /\ quietZone.v <= 100)

\* new QRCodeConfiguration(params): params.logo is no property of the class
\* and is not read
NewConfiguration(params) ==
    LET charsetSource == IF Truthy(params.charsetSource)
                         THEN params.charsetSource.v ELSE <<"U", "T", "F", "-", "8">>
        charsetTarget == IF Truthy(params.charsetTarget)
                         THEN params.charsetTarget.v ELSE <<"U", "T", "F", "-", "8">>
    IN  IF ~MarginValid(params.margin) THEN Thrown(NoConfiguration)
        ELSE IF ~QuietZoneValid(params.quietZone) THEN Thrown(NoConfiguration)
        ELSE IF ~IsCompatibleWithCharset(params.data, charsetSource)
        THEN Thrown(NoConfiguration)
        ELSE IF charsetSource \notin SupportedCharsets THEN Thrown(NoConfiguration)
        ELSE IF charsetTarget \notin SupportedCharsets THEN Thrown(NoConfiguration)
        ELSE Made([data |-> params.data,
                   size |-> params.size,
                   format |-> params.format,
                   errorCorrectionLevel |-> params.errorCorrectionLevel,
                   foregroundColor |-> params.foregroundColor,
                   backgroundColor |-> params.backgroundColor,
                   margin |-> IF params.margin.def THEN params.margin.v ELSE 1,
                   quietZone |-> IF params.quietZone.def THEN params.quietZone.v ELSE 0,
                   charsetSource |-> charsetSource,
                   charsetTarget |-> charsetTarget])

HashComponents(configuration) ==
    << configuration.data,
       SizeToString(configuration.size),
       configuration.format,
       configuration.errorCorrectionLevel,
       ColorToString(configuration.foregroundColor),
       ColorToString(configuration.backgroundColor),
       NumToString(configuration.margin, 10),
       NumToString(configuration.quietZone, 10),
       configuration.charsetSource,
       configuration.charsetTarget >>

\* getHashKey: Buffer.from(components.join('|')).toString('base64')
GetHashKey(configuration) ==
    Base64(Utf8(Join(HashComponents(configuration), <<"|">>)))

(* GenerateQRCodeUseCase.buildConfiguration *)

\* the object buildConfiguration hands to the constructor; ok = FALSE when
\* one of the factories has thrown
ParamsOf(request, data, size, format, ecc, fg, bg, logo) ==
    [ok |-> data.ok /\ size.ok /\ format.ok /\ ecc.ok /\ fg.ok /\ bg.ok /\ logo.ok,
     v |-> [data |-> data.v,
            size |-> size.v,
            format |-> format.v,
            errorCorrectionLevel |-> ecc.v,
            foregroundColor |-> fg.v,
            backgroundColor |-> bg.v,
            margin |-> Prop(request, "margin"),
            quietZone |-> Prop(request, "qzone"),
            charsetSource |-> Prop(request, "charset-source"),
            charsetTarget |-> Prop(request, "charset-target"),
            logo |-> [def |-> Truthy(Prop(request, "logo")), v |-> logo.v]]]

\* the arguments of the constructor, each made by its factory or defaulted
BuildParams(request) ==
    ParamsOf(request,
        DataPayloadCreate(Prop(request, "data")),
        IF Truthy(Prop(request, "size"))
        THEN SizeFromString(Prop(request, "size").v) ELSE Made(SizeDefault),
        IF Truthy(Prop(request, "format"))
        THEN OutputFormatCreate(Prop(request, "format").v) ELSE Made(OutputFormatDefault),
        IF Truthy(Prop(request, "ecc"))
        THEN ErrorCorrectionLevelCreate(Prop(request, "ecc").v)
        ELSE Made(ErrorCorrectionLevelDefault),
        IF Truthy(Prop(request, "color"))
        THEN ColorCreate(Prop(request, "color").v) ELSE Made(ColorBlack),
        IF Truthy(Prop(request, "bgcolor"))
        THEN ColorCreate(Prop(request, "bgcolor").v) ELSE Made(ColorWhite),
        IF Truthy(Prop(request, "logo"))
        THEN LogoCreate(Prop(request, "logo").v, Prop(request, "logo_size"),
                        Prop(request, "logo_margin"))
        ELSE Made(NoLogo))

\* new QRCodeConfiguration({...}) on the arguments made
Construct(params) ==
    IF params.ok THEN NewConfiguration(params.v) ELSE Thrown(NoConfiguration)

BuildConfiguration(request) == Construct(BuildParams(request))

(* ValidateParametersUseCase *)

Error(field, type) == [field |-> field, type |-> type]

\* a missing payload reported as a bad value
ValidateDataAsInvalid(data) ==
    IF ~Truthy(data) \/ ~DataPayloadCreate(data).ok
    THEN <<Error("data", "INVALID_VALUE")>> ELSE <<>>

ValidateData(data) ==
    IF ~Truthy(data) THEN <<Error("data", "REQUIRED_FIELD")>>
    ELSE IF ~DataPayloadCreate(data).ok THEN <<Error("data", "INVALID_VALUE")>>
    ELSE <<>>

ValidateSize(size) ==
    IF SizeFromString(size).ok THEN <<>> ELSE <<Error("size", "INVALID_FORMAT")>>

ValidateFormat(format) ==
    IF OutputFormatCreate(format).ok THEN <<>> ELSE <<Error("format", "INVALID_VALUE")>>

ValidateErrorCorrectionLevel(ecc) ==
    IF ErrorCorrectionLevelCreate(ecc).ok THEN <<>> ELSE <<Error("ecc", "INVALID_VALUE")>>

ValidateColor(color, field) ==
    IF ColorCreate(color).ok THEN <<>> ELSE <<Error(field, "INVALID_FORMAT")>>

ValidateMargin(margin) ==
    IF margin < 0 \/ margin > 50 THEN <<Error("margin", "OUT_OF_RANGE")>> ELSE <<>>

ValidateQuietZone(qzone) ==
    IF qzone < 0 \/ qzone > 100 THEN <<Error("qzone", "OUT_OF_RANGE")>> ELSE <<>>

ValidateCharset(charset, field) ==
    IF charset \notin SupportedCharsets THEN <<Error(field, "INVALID_VALUE")>> ELSE <<>>

ContrastOf(foreground, background) ==
    IF foreground.ok /\ background.ok
       /\ ~HasAccessibleContrast(foreground.v, background.v)
    THEN <<Error("color_contrast", "CONSTRAINT_VIOLATION")>>
    ELSE <<>>

ValidateColorContrast(color, bgcolor) ==
    ContrastOf(ColorCreate(color), ColorCreate(bgcolor))

ValidateLogo(logo, logoSize, logoMargin) ==
    IF LogoCreate(logo, logoSize, logoMargin).ok
    THEN <<>> ELSE <<Error("logo", "INVALID_VALUE")>>

\* logoSize > min(width, height) * 0.3
LogoSizeRelativeTo(size, logoSize) ==
    IF size.ok /\ 10 * logoSize > 3 * (IF size.v.width <= size.v.height
                                       THEN size.v.width ELSE size.v.height)
    THEN <<Error("logo_size", "CONSTRAINT_VIOLATION")>>
    ELSE <<>>

ValidateLogoSizeRelativeToQR(qrSize, logoSize) ==
    LogoSizeRelativeTo(SizeFromString(qrSize), logoSize)

\* ValidateParametersUseCase.execute: the errors collected, in order
ValidateParameters(request) ==
    LET p(name) == Prop(request, name)
    IN  ValidateData(p("data"))
        \o (IF Truthy(p("size")) THEN ValidateSize(p("size").v) ELSE <<>>)
        \o (IF Truthy(p("format")) THEN ValidateFormat(p("format").v) ELSE <<>>)
        \o (IF Truthy(p("ecc")) THEN ValidateErrorCorrectionLevel(p("ecc").v) ELSE <<>>)
        \o (IF Truthy(p("color")) THEN ValidateColor(p("color").v, "color") ELSE <<>>)
        \o (IF Truthy(p("bgcolor")) THEN ValidateColor(p("bgcolor").v, "bgcolor") ELSE <<>>)
        \o (IF p("margin").def THEN ValidateMargin(p("margin").v) ELSE <<>>)
        \o (IF p("qzone").def THEN ValidateQuietZone(p("qzone").v) ELSE <<>>)
        \o (IF Truthy(p("charset-source"))
            THEN ValidateCharset(p("charset-source").v, "charset-source") ELSE <<>>)
        \o (IF Truthy(p("charset-target"))
            THEN ValidateCharset(p("charset-target").v, "charset-target") ELSE <<>>)
        \o (IF Truthy(p("logo"))
            THEN ValidateLogo(p("logo").v, p("logo_size"), p("logo_margin")) ELSE <<>>)
        \o (IF Truthy(p("color")) /\ Truthy(p("bgcolor"))
            THEN ValidateColorContrast(p("color").v, p("bgcolor").v) ELSE <<>>)
        \o (IF Truthy(p("logo")) /\ Truthy(p("size")) /\ TruthyNum(p("logo_size"))
            THEN ValidateLogoSizeRelativeToQR(p("size").v, p("logo_size").v) ELSE <<>>)

\* ValidationResult.isValid
IsValid(errors) == Len(errors) = 0

----------------------------------------------------------------------------
(* InMemoryCacheRepository *)

StoreKeys == {<<>>, <<"a">>, <<"b">>}
StoreValues == {[id |-> 1], [id |-> 2]}
StoreTTLs == {NoNum, Num(1)}

ZeroStats == [hits |-> 0, misses |-> 0, sets |-> 0, deletes |-> 0]

CacheKeys(c) == {c[i].key : i \in 1..Len(c)}

CacheHas(c, k) == k \in CacheKeys(c)

CacheEntry(c, k) == c[CHOOSE i \in 1..Len(c) : c[i].key = k]

\* Map.delete(key)
CacheDelete(c, k) == SelectSeq(c, LAMBDA e : e.key # k)

\* a map that keeps the old entry of a key beside the new one
CacheSetAppending(c, k, e) == Append(c, e)

\* Map.set(key, entry): an existing key keeps its place in the iteration order
CacheSet(c, k, e) ==
    IF CacheHas(c, k)
    THEN [i \in 1..Len(c) |-> IF c[i].key = k THEN e ELSE c[i]]
    ELSE Append(c, e)

IsExpiredAtOrAfter(t, entry) == t >= entry.expiresAt

\* Date.now() > entry.expiresAt
IsExpired(t, entry) == t > entry.expiresAt

\* the loop of evictOldest: found = FALSE stands for oldestKey = null and
\* oldestTime = Infinity
RECURSIVE OldestFrom(_, _, _, _, _)
OldestFrom(c, i, found, oldestKey, oldestTime) ==
    IF i > Len(c)
    THEN [found |-> found, key |-> oldestKey]
    ELSE IF ~found \/ c[i].createdAt < oldestTime
         THEN OldestFrom(c, i + 1, TRUE, c[i].key, c[i].createdAt)
         ELSE OldestFrom(c, i + 1, found, oldestKey, oldestTime)

\* evictOldest: `if (oldestKey)` is false for null and for the empty string
EvictOldest(c) ==
    LET o == OldestFrom(c, 1, FALSE, <<>>, 0)
    IN  IF o.found /\ TruthyStr(o.key) THEN CacheDelete(c, o.key) ELSE c

\* get: the new cache, the new stats and the value returned
RepoGet(c, st, t, k) ==
    IF ~CacheHas(c, k)
    THEN [cache |-> c, stats |-> [st EXCEPT !.misses = @ + 1], result |-> Null]
    ELSE IF IsExpired(t, CacheEntry(c, k))
         THEN [cache |-> CacheDelete(c, k),
               stats |-> [st EXCEPT !.misses = @ + 1],
               result |-> Null]
         ELSE [cache |-> c,
               stats |-> [st EXCEPT !.hits = @ + 1],
               result |-> CacheEntry(c, k).qrCode]

\* a set that evicts at capacity whether or not it holds the key
RepoSetEvictingAlways(c, st, t, mk, k, qrCode, ttlSeconds) ==
    LET ttl == (IF TruthyNum(ttlSeconds) THEN ttlSeconds.v ELSE DefaultTTL) * MsPerSecond
        c1 == IF Len(c) >= mk THEN EvictOldest(c) ELSE c
        entry == [key |-> k, qrCode |-> qrCode, expiresAt |-> t + ttl, createdAt |-> t]
    IN  [cache |-> CacheSet(c1, k, entry),
         stats |-> [st EXCEPT !.sets = @ + 1],
         result |-> Void]

\* set: ttlSeconds || defaultTTL, eviction at capacity for a new key, insertion
RepoSet(c, st, t, mk, k, qrCode, ttlSeconds) ==
    LET ttl == (IF TruthyNum(ttlSeconds) THEN ttlSeconds.v ELSE DefaultTTL) * MsPerSecond
        c1 == IF Len(c) >= mk /\ ~CacheHas(c, k) THEN EvictOldest(c) ELSE c
        entry == [key |-> k, qrCode |-> qrCode, expiresAt |-> t + ttl, createdAt |-> t]
    IN  [cache |-> CacheSet(c1, k, entry),
         stats |-> [st EXCEPT !.sets = @ + 1],
         result |-> Void]

RepoDelete(c, st, k) ==
    [cache |-> CacheDelete(c, k),
     stats |-> IF CacheHas(c, k) THEN [st EXCEPT !.deletes = @ + 1] ELSE st,
     result |-> Void]

\* a clear that forgets resetStats
RepoClearKeepingStats(c, st) == [cache |-> <<>>, stats |-> st, result |-> Void]

\* clear, with resetStats
RepoClear(c, st) == [cache |-> <<>>, stats |-> ZeroStats, result |-> Void]

\* an exists that records a miss for an expired key
RepoExistsCountingMiss(c, st, t, k) ==
    IF ~CacheHas(c, k)
    THEN [cache |-> c, stats |-> st, result |-> FALSE]
    ELSE IF IsExpired(t, CacheEntry(c, k))
         THEN [cache |-> CacheDelete(c, k),
               stats |-> [st EXCEPT !.misses = @ + 1],
               result |-> FALSE]
         ELSE [cache |-> c, stats |-> st, result |-> TRUE]

RepoExists(c, st, t, k) ==
    IF ~CacheHas(c, k)
    THEN [cache |-> c, stats |-> st, result |-> FALSE]
    ELSE IF IsExpired(t, CacheEntry(c, k))
         THEN [cache |-> CacheDelete(c, k), stats |-> st, result |-> FALSE]
         ELSE [cache |-> c, stats |-> st, result |-> TRUE]

\* getStats, without the memory estimate
RepoGetStats(c, st) == [hits |-> st.hits, misses |-> st.misses, keys |-> Len(c)]

\* a sweep that empties the store
RepoCleanupAll(c, t) == <<>>

\* cleanup, the sweep the constructor schedules every minute
RepoCleanup(c, t) == SelectSeq(c, LAMBDA e : ~IsExpired(t, e))

----------------------------------------------------------------------------
(* CacheManagementUseCase: each operation is the repository's operation    *)
(* inside try/catch. fails says that the repository throws; it then throws *)
(* before it has changed anything. raised says that the operation of the   *)
(* use case throws to its caller.                                           *)

\* the operation returns result after the repository's call r has returned
Returned(r, result) ==
    [cache |-> r.cache, stats |-> r.stats, raised |-> FALSE, result |-> result]

\* the catch block returns result
Caught(c, st, result) ==
    [cache |-> c, stats |-> st, raised |-> FALSE, result |-> result]

\* the operation without its catch block: the error goes to the caller
Uncaught(c, st) == [cache |-> c, stats |-> st, raised |-> TRUE, result |-> Void]

GotFrom(r) == Returned(r, r.result)

UseCaseGet(c, st, t, key, fails) ==
    IF fails THEN Caught(c, st, Null) ELSE GotFrom(RepoGet(c, st, t, key))

UseCaseSetUncaught(c, st, t, mk, key, qrCode, ttlSeconds, fails) ==
    IF fails THEN Uncaught(c, st)
    ELSE Returned(RepoSet(c, st, t, mk, key, qrCode, ttlSeconds), TRUE)

\* ttl = ttlSeconds || this.defaultTTL
UseCaseSet(c, st, t, mk, key, qrCode, ttlSeconds, fails) ==
    IF fails THEN Caught(c, st, FALSE)
    ELSE Returned(RepoSet(c, st, t, mk, key, qrCode,
                          IF TruthyNum(ttlSeconds) THEN ttlSeconds
                          ELSE Num(UseCaseDefaultTTL)),
                  TRUE)

UseCaseDelete(c, st, key, fails) ==
    IF fails THEN Caught(c, st, FALSE) ELSE Returned(RepoDelete(c, st, key), TRUE)

UseCaseClear(c, st, fails) ==
    IF fails THEN Caught(c, st, FALSE) ELSE Returned(RepoClear(c, st), TRUE)

UseCaseExists(c, st, t, key, fails) ==
    IF fails THEN Caught(c, st, FALSE) ELSE GotFrom(RepoExists(c, st, t, key))

\* Math.round(hitRate * 100) / 100, in hundredths of a percent
HitRate(hits, misses) ==
    IF hits + misses > 0
    THEN (2 * 10000 * hits + (hits + misses)) \div (2 * (hits + misses))
    ELSE 0

WithHitRate(repoStats) ==
    [hits |-> repoStats.hits, misses |-> repoStats.misses, keys |-> repoStats.keys,
     hitRate |-> HitRate(repoStats.hits, repoStats.misses)]

UseCaseGetStats(c, st, fails) ==
    IF fails THEN Caught(c, st, [hits |-> 0, misses |-> 0, keys |-> 0, hitRate |-> 0])
    ELSE [cache |-> c, stats |-> st, raised |-> FALSE,
          result |-> WithHitRate(RepoGetStats(c, st))]

----------------------------------------------------------------------------
(* The store driven directly: any sequence of operations and clock advances *)

NoSets == [k \in StoreKeys |-> Null]

\* the keys an operation removed other than by expiry lose their lastSet
Forget(ls, removed) == [k \in DOMAIN ls |-> IF k \in removed THEN Null ELSE ls[k]]

\* the two requests are not in use
KeyIdle ==
    /\ reqA = <<>>
    /\ reqB = <<>>
    /\ outA = Null
    /\ outB = Null
    /\ edits = 0

\* no HTTP request arrives
RateIdle ==
    /\ requests = <<>>
    /\ served = <<>>
    /\ arrivals = 0
    /\ reply = Null

\* no call of execute is made
ExecIdle ==
    /\ execs = <<>>
    /\ nextId = 1
    /\ metrics = <<>>

StoreInit ==
    /\ now = 0
    /\ ticks = 0
    /\ maxKeys \in 1..MaxKeysBound
    /\ cache = <<>>
    /\ stats = ZeroStats
    /\ nops = 0
    /\ last = [op |-> "new"]
    /\ lastSet = NoSets
    /\ RateIdle
    /\ KeyIdle
    /\ ExecIdle

Tick ==
    /\ ticks < MaxTicks
    /\ now' = now + MsPerSecond
    /\ ticks' = ticks + 1
    /\ UNCHANGED <<maxKeys, cache, stats, nops, last, lastSet, keyVars, execVars, rateVars>>

Get(k) ==
    LET r == RepoGet(cache, stats, now, k)
    IN  /\ nops < MaxOps
        /\ cache' = r.cache
        /\ stats' = r.stats
        /\ last' = [op |-> "get", key |-> k, result |-> r.result]
        /\ nops' = nops + 1
        /\ UNCHANGED <<now, ticks, maxKeys, lastSet, keyVars, execVars, rateVars>>

Set(k, v, ttl) ==
    LET r == RepoSet(cache, stats, now, maxKeys, k, v, ttl)
    IN  /\ nops < MaxOps
        /\ cache' = r.cache
        /\ stats' = r.stats
        /\ last' = [op |-> "set", key |-> k, value |-> v, ttl |-> ttl]
        /\ lastSet' = [Forget(lastSet, CacheKeys(cache) \ CacheKeys(r.cache))
                          EXCEPT ![k] = [value |-> v, ttl |-> ttl, at |-> now]]
        /\ nops' = nops + 1
        /\ UNCHANGED <<now, ticks, maxKeys, keyVars, execVars, rateVars>>

Delete(k) ==
    LET r == RepoDelete(cache, stats, k)
    IN  /\ nops < MaxOps
        /\ cache' = r.cache
        /\ stats' = r.stats
        /\ last' = [op |-> "delete", key |-> k]
        /\ lastSet' = Forget(lastSet, {k})
        /\ nops' = nops + 1
        /\ UNCHANGED <<now, ticks, maxKeys, keyVars, execVars, rateVars>>

Clear ==
    LET r == RepoClear(cache, stats)
    IN  /\ nops < MaxOps
        /\ cache' = r.cache
        /\ stats' = r.stats
        /\ last' = [op |-> "clear", hits |-> stats.hits, misses |-> stats.misses]
        /\ lastSet' = NoSets
        /\ nops' = nops + 1
        /\ UNCHANGED <<now, ticks, maxKeys, keyVars, execVars, rateVars>>

Exists(k) ==
    LET r == RepoExists(cache, stats, now, k)
    IN  /\ nops < MaxOps
        /\ cache' = r.cache
        /\ stats' = r.stats
        /\ last' = [op |-> "exists", key |-> k, found |-> r.result]
        /\ nops' = nops + 1
        /\ UNCHANGED <<now, ticks, maxKeys, lastSet, keyVars, execVars, rateVars>>

Cleanup ==
    /\ nops < MaxOps
    /\ cache' = RepoCleanup(cache, now)
    /\ last' = [op |-> "cleanup"]
    /\ nops' = nops + 1
    /\ UNCHANGED <<now, ticks, maxKeys, stats, lastSet, keyVars, execVars, rateVars>>

StoreNext ==
    \/ Tick
    \/ \E k \in StoreKeys : Get(k)
    \/ \E k \in StoreKeys, v \in StoreValues, ttl \in StoreTTLs : Set(k, v, ttl)
    \/ \E k \in StoreKeys : Delete(k)
    \/ Clear
    \/ \E k \in StoreKeys : Exists(k)
    \/ Cleanup

SpecStore == StoreInit /\ [][StoreNext]_vars

\* a step that performs the repository operation op
IsOp(op) == nops' = nops + 1 /\ last'.op = op

\* the store holds an entry for k whose expiresAt has passed
HoldsExpired(k) == CacheHas(cache, k) /\ IsExpired(now, CacheEntry(cache, k))

\* C1: after set(k, v, ttl) with ttl > 0 at time t0, and no delete, clear,
\* eviction or overwrite of k since, a get(k) at a time t <= t0 + ttl*1000
\* returns v and increments hits; a get(k) at a time t > t0 + ttl*1000 returns
\* null, increments misses by one and leaves no entry for k in the store.
C1_Expiry ==
    [][(IsOp("get") /\ lastSet[last'.key] # Null) =>
        LET k == last'.key
            s == lastSet[k]
        IN  (s.ttl.def /\ s.ttl.v > 0) =>
                IF now <= s.at + s.ttl.v * 1000
                THEN /\ last'.result = s.value
                     /\ stats'.hits = stats.hits + 1
                     /\ stats'.misses = stats.misses
                ELSE /\ last'.result = Null
                     /\ stats'.misses = stats.misses + 1
                     /\ stats'.hits = stats.hits
                     /\ ~CacheHas(cache', k)]_vars

\* C1, witness: a get of a key whose set is older than its ttl has returned
\* null, after a get within the ttl had been a hit
C1_Witness ==
    /\ last.op = "get"
    /\ lastSet[last.key] # Null
    /\ lastSet[last.key].ttl = Num(1)
    /\ now > lastSet[last.key].at + 1000
    /\ last.result = Null
    /\ stats.hits > 0
    /\ ~CacheHas(cache, last.key)

\* C2: the number of stored entries never exceeds maxKeys.
C2_Bound == Len(cache) <= maxKeys

\* C3: a set of a key that is not stored, while the store holds maxKeys
\* entries, removes exactly one entry, one of minimal createdAt, and then
\* inserts the key.
C3_EvictsOldest ==
    [][(IsOp("set") /\ ~CacheHas(cache, last'.key) /\ Len(cache) = maxKeys) =>
        \E i \in 1..Len(cache) :
            /\ CacheKeys(cache') = (CacheKeys(cache) \ {cache[i].key}) \cup {last'.key}
            /\ \A j \in 1..Len(cache) : cache[i].createdAt <= cache[j].createdAt]_vars

\* C11: hits and misses never decrease across get, set, delete, exists or
\* the sweep; clear alone lowers them, and it sets both to zero and removes
\* every entry.
C11_Monotonic ==
    [][/\ (nops' = nops + 1 /\ last'.op # "clear") =>
              (stats'.hits >= stats.hits /\ stats'.misses >= stats.misses)
       /\ (stats'.hits < stats.hits \/ stats'.misses < stats.misses) =>
              IsOp("clear")
       /\ IsOp("clear") =>
              (stats'.hits = 0 /\ stats'.misses = 0 /\ cache' = <<>>)]_vars

\* C11, witness: a clear has taken a counter that was positive back to zero
\* and has emptied the store
C11_Witness ==
    /\ last.op = "clear"
    /\ last.hits > 0
    /\ stats.hits = 0
    /\ stats.misses = 0
    /\ cache = <<>>

----------------------------------------------------------------------------
(* The store with its sweep timer: setInterval fires cleanup again and      *)
(* again, whatever the callers of the store do                               *)

\* the timer fires: cleanup runs. What the store held and counted when it
\* fired is kept in last, which is history
Sweep ==
    /\ cache' = RepoCleanup(cache, now)
    /\ last' = [op |-> "sweep", before |-> cache, hits |-> stats.hits,
                 misses |-> stats.misses, at |-> now]
    /\ UNCHANGED <<now, ticks, maxKeys, stats, nops, lastSet, keyVars, execVars, rateVars>>

SweepNext ==
    \/ Tick
    \/ \E k \in StoreKeys : Get(k)
    \/ \E k \in StoreKeys, v \in StoreValues, ttl \in StoreTTLs : Set(k, v, ttl)
    \/ \E k \in StoreKeys : Delete(k)
    \/ Clear
    \/ \E k \in StoreKeys : Exists(k)
    \/ Sweep

\* the timer keeps firing
SpecSweep == StoreInit /\ [][SweepNext]_vars /\ WF_vars(Sweep)

\* C13: while the sweep timer keeps firing, an entry whose expiresAt has
\* passed is eventually removed from the store, whether or not get or exists
\* is called for its key; and each sweep removes exactly the entries whose
\* expiresAt is earlier than the current time, leaving the other entries and
\* the hit and miss counters as they were.
C13_Sweep ==
    /\ \A k \in StoreKeys : HoldsExpired(k) ~> ~HoldsExpired(k)
    /\ [](last.op = "sweep" =>
            /\ \A i \in 1..Len(last.before) :
                  (last.at > last.before[i].expiresAt)
                      <=> ~CacheHas(cache, last.before[i].key)
            /\ \A i \in 1..Len(cache) :
                  \E j \in 1..Len(last.before) : cache[i] = last.before[j]
            /\ stats.hits = last.hits
            /\ stats.misses = last.misses)

\* C13, witness: the one entry ever stored has been removed by the sweep
\* after its time to live, no other operation having been called
C13_Witness ==
    /\ last.op = "sweep"
    /\ Len(last.before) = 1
    /\ nops = 1
    /\ cache = <<>>
    /\ \E k \in StoreKeys :
          /\ lastSet[k] # Null
          /\ lastSet[k].ttl = Num(1)
          /\ now > lastSet[k].at + MsPerSecond

\* a set of a key the store holds has just been made
Overwrites == IsOp("set") /\ CacheHas(cache, last'.key)

\* C26: a set of a key that is stored, also in a full store, removes no entry
\* and leaves the entry of every other key as it was; the number of entries
\* is the same, and the entry of the key holds the new value, createdAt = now
\* and expiresAt = now + (ttlSeconds || defaultTTL) * 1000.
C26_Overwrite ==
    [][Overwrites =>
          /\ Len(cache') = Len(cache)
          /\ CacheKeys(cache') = CacheKeys(cache)
          /\ \A k \in CacheKeys(cache) \ {last'.key} :
                 CacheEntry(cache', k) = CacheEntry(cache, k)
          /\ CacheEntry(cache', last'.key) =
                 [key |-> last'.key,
                  qrCode |-> last'.value,
                  createdAt |-> now,
                  expiresAt |-> now + MsPerSecond *
                      (IF TruthyNum(last'.ttl) THEN last'.ttl.v ELSE DefaultTTL)]]_vars

\* C26, witness: a full store of two entries whose first key has been set
\* again, later than the second key
C26_Witness ==
    /\ last.op = "set"
    /\ Len(cache) = 2
    /\ maxKeys = 2
    /\ cache[1].key = last.key
    /\ cache[1].createdAt = now
    /\ cache[2].createdAt < now

\* a step that performs one of the repository operations ops
IsOneOf(ops) == nops' = nops + 1 /\ last'.op \in ops

\* C30: hits + misses is the number of get calls since construction or the
\* last clear: both are zero at construction and after a clear, each get
\* adds one to exactly one of them, and exists, set, delete and the sweep
\* change neither; an exists on an expired key removes it and records no miss.
C30_Counts ==
    /\ stats.hits = 0 /\ stats.misses = 0
    /\ [][/\ IsOp("get") =>
                 \/ stats'.hits = stats.hits + 1 /\ stats'.misses = stats.misses
                 \/ stats'.hits = stats.hits /\ stats'.misses = stats.misses + 1
          /\ IsOp("clear") => (stats'.hits = 0 /\ stats'.misses = 0)
          /\ IsOneOf({"exists", "set", "delete", "cleanup"}) =>
                 (stats'.hits = stats.hits /\ stats'.misses = stats.misses)
          /\ nops' = nops => stats' = stats
          /\ (IsOp("exists") /\ HoldsExpired(last'.key)) =>
                 (~CacheHas(cache', last'.key) /\ ~last'.found)]_vars

\* C30, witness: after one get, a hit, an exists has found the key expired
\* and removed its entry, and no miss is recorded
C30_Witness ==
    /\ last.op = "exists"
    /\ ~last.found
    /\ lastSet[last.key] # Null
    /\ ~CacheHas(cache, last.key)
    /\ stats.hits = 1
    /\ stats.misses = 0
    /\ nops = 3

----------------------------------------------------------------------------
(* Configuration identity: two request objects, and what validation,       *)
(* buildConfiguration and getHashKey make of each                           *)

\* the property assignments the requests are built from
FieldValues ==
    { <<"data", Str(<<>>)>>,
      <<"data", Str(<<"h", "i">>)>>,
      <<"data", Str(<<"y", "o">>)>>,
      <<"size", Str(<<"2", "0", "0", "x", "2", "0", "0">>)>>,
      <<"size", Str(<<"2", "0", "0", "X", "2", "0", "0">>)>>,
      <<"size", Str(<<"3", "0", "0", "x", "3", "0", "0">>)>>,
      <<"format", Str(<<"p", "n", "g">>)>>,
      <<"format", Str(<<"P", "N", "G">>)>>,
      <<"format", Str(<<"s", "v", "g">>)>>,
      <<"ecc", Str(<<"h">>)>>,
      <<"ecc", Str(<<"H">>)>>,
      <<"ecc", Str(<<"l">>)>>,
      <<"color", Str(<<"#", "0", "0", "f">>)>>,
      <<"color", Str(<<"0", "0", "F">>)>>,
      <<"color", Str(<<"#", "0", "0", "0", "0", "f", "f">>)>>,
      <<"color", Str(<<"0", "0", "0", "0", "F", "F">>)>>,
      <<"color", Str(<<"0", "-", "0", "-", "2", "5", "5">>)>>,
      <<"color", Str(<<"#", "0", "0", "0">>)>>,
      <<"bgcolor", Str(<<"#", "f", "f", "f">>)>>,
      <<"bgcolor", Str(<<"F", "F", "F", "F", "F", "F">>)>>,
      <<"bgcolor", Str(<<"2", "5", "5", "-", "2", "5", "5", "-", "2", "5", "5">>)>>,
      <<"bgcolor", Str(<<"#", "f", "f", "0">>)>>,
      <<"margin", Num(2)>>, <<"margin", Num(3)>>,
      <<"qzone", Num(1)>>, <<"qzone", Num(2)>>,
      <<"charset-source", Str(<<"U", "T", "F", "-", "8">>)>>,
      <<"charset-source", Str(<<"I", "S", "O", "-", "8", "8", "5", "9", "-", "1">>)>>,
      <<"charset-target", Str(<<"U", "T", "F", "-", "8">>)>>,
      <<"charset-target", Str(<<"I", "S", "O", "-", "8", "8", "5", "9", "-", "1">>)>>,
      <<"logo", Str(<<"g", "o", "o", "g", "l", "e">>)>>,
      <<"logo", Str(<<"g", "i", "t", "h", "u", "b">>)>>,
      <<"logo_size", Num(40)>>, <<"logo_size", Num(70)>> }

\* request[name] = value: a new property goes last, an old one keeps its place
SetProp(request, name, value) ==
    IF \E i \in 1..Len(request) : request[i][1] = name
    THEN [i \in 1..Len(request) |->
             IF request[i][1] = name THEN <<name, value>> ELSE request[i]]
    ELSE Append(request, <<name, value>>)

\* the same properties in the opposite order
Reversed(request) == [i \in 1..Len(request) |-> request[Len(request) + 1 - i]]

\* what execute has of a request before it looks into the cache
Outcome(errors, params, configuration) ==
    [valid |-> IsValid(errors),
     built |-> configuration.ok,
     configuration |-> configuration.v,
     logo |-> params.v.logo,
     key |-> IF configuration.ok THEN GetHashKey(configuration.v) ELSE <<>>]

OutcomeOf(errors, params) == Outcome(errors, params, Construct(params))

\* validation, then buildConfiguration and getHashKey as execute calls them;
\* logo is the argument buildConfiguration makes of request.logo
Derive(request) == OutcomeOf(ValidateParameters(request), BuildParams(request))

BaseRequest == << <<"data", Str(<<"h", "i">>)>> >>

KeyInit ==
    /\ reqA = BaseRequest
    /\ reqB = BaseRequest
    /\ outA = Derive(BaseRequest)
    /\ outB = Derive(BaseRequest)
    /\ edits = 0
    /\ now = 0
    /\ ticks = 0
    /\ maxKeys = MaxKeysBound
    /\ cache = <<>>
    /\ stats = ZeroStats
    /\ nops = 0
    /\ last = [op |-> "new"]
    /\ lastSet = NoSets
    /\ RateIdle
    /\ ExecIdle

\* the same assignment to both requests, while they are the same object
EditBoth(name, value) ==
    /\ edits < MaxEdits
    /\ reqA = reqB
    /\ reqA' = SetProp(reqA, name, value)
    /\ reqB' = reqA'
    /\ outA' = Derive(reqA')
    /\ outB' = outA'
    /\ edits' = edits + 1
    /\ UNCHANGED <<storeVars, execVars, rateVars>>

\* an assignment to the second request only
EditB(name, value) ==
    /\ edits < MaxEdits
    /\ reqB' = SetProp(reqB, name, value)
    /\ outB' = Derive(reqB')
    /\ edits' = edits + 1
    /\ UNCHANGED <<reqA, outA, storeVars, execVars, rateVars>>

\* the second request with its parameters in the opposite order
Reorder ==
    /\ Len(reqB) > 1
    /\ reqB' = Reversed(reqB)
    /\ outB' = Derive(reqB')
    /\ UNCHANGED <<reqA, outA, edits, storeVars, execVars, rateVars>>

KeyNext ==
    \/ \E fv \in FieldValues : EditBoth(fv[1], fv[2])
    \/ \E fv \in FieldValues : EditB(fv[1], fv[2])
    \/ Reorder

SpecKey == KeyInit /\ [][KeyNext]_vars

\* the fields of a configuration as the specification lists them
ConfigurationFields ==
    {"data", "size", "format", "errorCorrectionLevel", "foregroundColor",
     "backgroundColor", "margin", "quietZone", "charsetSource", "charsetTarget"}

\* the fields, the logo descriptor among them, in which two outcomes differ
DifferingFields(a, b) ==
    {f \in ConfigurationFields : a.configuration[f] # b.configuration[f]}
        \cup (IF a.logo # b.logo THEN {"logo"} ELSE {})

\* C4: two configurations that differ in exactly one field, the logo
\* descriptor counted as a field, have different hash keys.
C4_Injective ==
    (outA # Null /\ outB # Null /\ outA.built /\ outB.built
        /\ Cardinality(DifferingFields(outA, outB)) = 1)
    => outA.key # outB.key

\* the RGB triple each colour spelling of the model stands for
ColorMeaning(spelling) ==
    CASE spelling \in {<<"#", "0", "0", "f">>, <<"0", "0", "F">>, <<"#", "0", "0", "0", "0", "f", "f">>, <<"0", "0", "0", "0", "F", "F">>, <<"0", "-", "0", "-", "2", "5", "5">>}
            -> <<0, 0, 255>>
      [] spelling = <<"#", "0", "0", "0">> -> <<0, 0, 0>>
      [] spelling \in {<<"#", "f", "f", "f">>, <<"F", "F", "F", "F", "F", "F">>, <<"2", "5", "5", "-", "2", "5", "5", "-", "2", "5", "5">>}
            -> <<255, 255, 255>>
      [] spelling = <<"#", "f", "f", "0">> -> <<255, 255, 0>>

\* what a parameter value means: letter case does not count in format, ecc
\* and the size separator, and a colour means its RGB triple
Meaning(name, value) ==
    IF ~value.def THEN <<"absent">>
    ELSE IF name \in {"format", "ecc", "size"} THEN <<"text", ToLowerCase(value.v)>>
    ELSE IF name \in {"color", "bgcolor"} THEN <<"rgb", ColorMeaning(value.v)>>
    ELSE <<"same", value.v>>

SameMeaning(a, b) ==
    \A name \in StringProps \cup NumberProps :
        Meaning(name, Prop(a, name)) = Meaning(name, Prop(b, name))

----------------------------------------------------------------------------
(* ValidateParametersUseCase.execute on one request object, built by       *)
(* property assignments, valid and invalid                                  *)

\* the data property of the request a caller starts from: left out, null,
\* empty, blank and present
DataValues == {NoStr, NullStr, Str(<<>>), Str(<<" ">>), Str(<<"h", "i">>)}

AssignValues ==
    { <<"size", Str(<<"1", "0", "0", "x", "1", "0", "0">>)>>,
      <<"size", Str(<<"1", "0", "0", "x", "2", "0", "0">>)>>,
      <<"size", Str(<<"5", "x", "5">>)>>,
      <<"size", Str(<<"b", "i", "g">>)>>,
      <<"format", Str(<<"b", "m", "p">>)>>,
      <<"ecc", Str(<<"Z">>)>>,
      <<"color", Str(<<"#", "f", "f", "f">>)>>,
      <<"color", Str(<<"#", "7", "7", "7">>)>>,
      <<"color", Str(<<"i", "n", "k">>)>>,
      <<"bgcolor", Str(<<"#", "8", "8", "8">>)>>,
      <<"bgcolor", Str(<<"0", "0", "0">>)>>,
      <<"bgcolor", Str(<<"2", "5", "6", "-", "0", "-", "0">>)>>,
      <<"margin", Num(51)>>,
      <<"qzone", Num(-1)>>,
      <<"charset-source", Str(<<"u", "t", "f", "8">>)>>,
      <<"charset-target", Str(<<"K", "O", "I">>)>>,
      <<"logo", Str(<<"g", "o", "o", "g", "l", "e">>)>>,
      <<"logo", Str(<<"n", "o", "p", "e">>)>>,
      <<"logo_size", Num(0)>>,
      <<"logo_size", Num(5)>>,
      <<"logo_size", Num(30)>>,
      <<"logo_size", Num(31)>>,
      <<"logo_size", Num(70)>>,
      <<"logo_margin", Num(60)>> }

\* what the validation makes of a request, and the arguments
\* buildConfiguration would make of it
Checked(request) ==
    [errors |-> ValidateParameters(request), params |-> BuildParams(request)]

ValidateInit ==
    /\ \E data \in DataValues :
          /\ reqA = IF data = NoStr THEN <<>> ELSE << <<"data", data>> >>
          /\ outA = Checked(reqA)
    /\ reqB = <<>>
    /\ outB = Null
    /\ edits = 0
    /\ now = 0
    /\ ticks = 0
    /\ maxKeys = MaxKeysBound
    /\ cache = <<>>
    /\ stats = ZeroStats
    /\ nops = 0
    /\ last = [op |-> "new"]
    /\ lastSet = NoSets
    /\ RateIdle
    /\ ExecIdle

\* the caller sets a property of the request, and the request is validated
Assign(name, value) ==
    /\ edits < MaxAssigns
    /\ reqA' = SetProp(reqA, name, value)
    /\ outA' = Checked(reqA')
    /\ edits' = edits + 1
    /\ UNCHANGED <<reqB, outB, storeVars, execVars, rateVars>>

ValidateNext == \E av \in AssignValues : Assign(av[1], av[2])

SpecValidate == ValidateInit /\ [][ValidateNext]_vars

\* the fields of the errors reported
ErrorFields(errors) == {errors[i].field : i \in 1..Len(errors)}

\* the parameters other than the overlay's that are given and do not pass
\* their own check
InvalidPlain(request) ==
    {n \in {"data"} : ValidateData(Prop(request, n)) # <<>>}
    \cup {n \in {"size"} :
             Truthy(Prop(request, n)) /\ ~SizeFromString(Prop(request, n).v).ok}
    \cup {n \in {"format"} :
             Truthy(Prop(request, n)) /\ ~OutputFormatCreate(Prop(request, n).v).ok}
    \cup {n \in {"ecc"} :
             Truthy(Prop(request, n)) /\ ~ErrorCorrectionLevelCreate(Prop(request, n).v).ok}
    \cup {n \in {"color", "bgcolor"} :
             Truthy(Prop(request, n)) /\ ~ColorCreate(Prop(request, n).v).ok}
    \cup {n \in {"margin"} :
             Prop(request, n).def /\ (Prop(request, n).v < 0 \/ Prop(request, n).v > 50)}
    \cup {n \in {"qzone"} :
             Prop(request, n).def /\ (Prop(request, n).v < 0 \/ Prop(request, n).v > 100)}
    \cup {n \in {"charset-source", "charset-target"} :
             Truthy(Prop(request, n)) /\ Prop(request, n).v \notin SupportedCharsets}

\* the parameters of the overlay that are given with a logo and do not pass
\* their own check; logo_size 0 stands for the default
InvalidOverlay(request) ==
    IF ~Truthy(Prop(request, "logo")) THEN {}
    ELSE {n \in {"logo"} : ~LogoValidateSource(Prop(request, n).v).ok}
         \cup {n \in {"logo_size"} :
                  TruthyNum(Prop(request, n))
                  /\ (Prop(request, n).v < 10 \/ Prop(request, n).v > 200)}
         \cup {n \in {"logo_margin"} :
                  Prop(request, n).def
                  /\ (Prop(request, n).v < 0 \/ Prop(request, n).v > 50)}

\* the errors reported for the overlay's own parameters
OverlayErrors(errors) == {i \in 1..Len(errors) : errors[i].field = "logo"}

\* C14: the validation reports, in one result, an error for each parameter
\* that is invalid on its own, none hiding another, and the result is valid
\* exactly when no error was collected.
C14_AllErrors ==
    /\ InvalidPlain(reqA) \subseteq ErrorFields(outA.errors)
    /\ Cardinality(OverlayErrors(outA.errors)) >= Cardinality(InvalidOverlay(reqA))
    /\ IsValid(outA.errors) <=> (outA.errors = <<>>)

\* the request is accepted
Accepted == IsValid(outA.errors)

\* the smaller dimension of a canvas
MinDimension(size) == IF size.width <= size.height THEN size.width ELSE size.height

CanvasOf100 == Str(<<"1", "0", "0", "x", "1", "0", "0">>)

\* C15: an accepted request that carries a logo has an overlay size
\* (logo_size, or 50 when left out) of at most 30% of the smaller dimension
\* of its canvas (size, or 200x200 when left out); on a canvas of 100x100 an
\* overlay of 31 is rejected and one of 30 is accepted.
C15_OverlayFits ==
    /\ (Accepted /\ Truthy(Prop(reqA, "logo"))) =>
          10 * outA.params.v.logo.v.size <= 3 * MinDimension(outA.params.v.size)
    /\ (Truthy(Prop(reqA, "logo")) /\ Prop(reqA, "size") = CanvasOf100
        /\ Prop(reqA, "logo_size") = Num(31)) => ~Accepted
    /\ (Prop(reqA, "data") = Str(<<"h", "i">>) /\ Len(reqA) = 4
        /\ Prop(reqA, "logo") = Str(<<"g", "o", "o", "g", "l", "e">>)
        /\ Prop(reqA, "size") = CanvasOf100
        /\ Prop(reqA, "logo_size") = Num(30)) => Accepted

\* C16: an accepted request has a foreground and a background, black and
\* white standing in for a colour left out, of accessible contrast; a request
\* whose two colours are below the threshold gets a color_contrast error.
C16_Contrast ==
    /\ Accepted =>
          HasAccessibleContrast(outA.params.v.foregroundColor,
                                outA.params.v.backgroundColor)
    /\ (/\ Truthy(Prop(reqA, "color")) /\ Truthy(Prop(reqA, "bgcolor"))
        /\ ColorCreate(Prop(reqA, "color").v).ok
        /\ ColorCreate(Prop(reqA, "bgcolor").v).ok
        /\ ~HasAccessibleContrast(ColorCreate(Prop(reqA, "color").v).v,
                                  ColorCreate(Prop(reqA, "bgcolor").v).v))
       => "color_contrast" \in ErrorFields(outA.errors)

\* the errors of the cross-field checks, which alone are CONSTRAINT_VIOLATION
CrossFields(errors) ==
    {errors[i].field : i \in {j \in 1..Len(errors) :
                                  errors[j].type = "CONSTRAINT_VIOLATION"}}

\* C17: a color_contrast error is reported only if color and bgcolor both
\* parse, and an overlay-against-canvas error (logo_size) only if size
\* parses and the logo with its logo_size and logo_margin is itself valid.
C17_Gated ==
    /\ "color_contrast" \in CrossFields(outA.errors) =>
          /\ Truthy(Prop(reqA, "color")) /\ ColorCreate(Prop(reqA, "color").v).ok
          /\ Truthy(Prop(reqA, "bgcolor")) /\ ColorCreate(Prop(reqA, "bgcolor").v).ok
    /\ "logo_size" \in CrossFields(outA.errors) =>
          /\ Truthy(Prop(reqA, "size")) /\ SizeFromString(Prop(reqA, "size").v).ok
          /\ Truthy(Prop(reqA, "logo"))
          /\ LogoCreate(Prop(reqA, "logo").v, Prop(reqA, "logo_size"),
                        Prop(reqA, "logo_margin")).ok

\* data is undefined, null or the empty string
DataMissing == ~Prop(reqA, "data").def \/ Prop(reqA, "data").v = <<>>

\* C18: when data is missing the result has exactly one error for data, of
\* type REQUIRED_FIELD, and the other parameters given are validated and
\* reported as they are when data is present.
C18_Required ==
    DataMissing =>
        /\ Cardinality({i \in 1..Len(outA.errors) : outA.errors[i].field = "data"}) = 1
        /\ \A i \in 1..Len(outA.errors) :
              outA.errors[i].field = "data" => outA.errors[i].type = "REQUIRED_FIELD"
        /\ SelectSeq(outA.errors, LAMBDA e : e.field # "data")
              = ValidateParameters(SetProp(reqA, "data", Str(<<"h", "i">>)))

\* C18, witness: a request whose data is null has the required-field error
\* and the errors of two other parameters
C18_Witness ==
    /\ outA # Null
    /\ reqA # <<>>
    /\ Prop(reqA, "data") = NullStr
    /\ Len(outA.errors) = 3
    /\ outA.errors[1] = Error("data", "REQUIRED_FIELD")

----------------------------------------------------------------------------
(* Size.fromString on size strings: two runs of characters and a separator *)

DimensionTexts ==
    {<<"9">>, <<"1", "0">>, <<"3", "0", "0">>, <<"4", "0", "0">>,
     <<"1", "0", "0", "0">>, <<"1", "0", "0", "1">>, <<"3", ".", "5">>, <<>>}

SeparatorTexts == {<<"x">>, <<"X">>, <<"-">>, <<"x", "x">>}

\* the other use cases are at rest
OthersIdle ==
    /\ reqB = <<>>
    /\ outB = Null
    /\ edits = 0
    /\ now = 0
    /\ ticks = 0
    /\ maxKeys = MaxKeysBound
    /\ cache = <<>>
    /\ stats = ZeroStats
    /\ nops = 0
    /\ last = [op |-> "new"]
    /\ lastSet = NoSets
    /\ RateIdle
    /\ ExecIdle

SizeInit ==
    /\ \E w \in DimensionTexts, x \in SeparatorTexts, h \in DimensionTexts :
          reqA = << <<"size", Str(w \o x \o h)>> >>
    /\ outA = Null
    /\ OthersIdle

\* Size.fromString is called on the size of the request
ParseSize ==
    /\ outA = Null
    /\ outA' = SizeFromString(Prop(reqA, "size").v)
    /\ UNCHANGED <<reqA, reqB, outB, edits, storeVars, execVars, rateVars>>

SizeNext == ParseSize

SpecSize == SizeInit /\ [][SizeNext]_vars

\* C19: Size.fromString rejects every input whose width differs from its
\* height, so that every Size made is square, with both dimensions in
\* [10, 1000].
C19_Square ==
    (outA # Null /\ outA.ok) =>
        /\ outA.v.width = outA.v.height
        /\ outA.v.width >= SizeMin /\ outA.v.width <= SizeMax

----------------------------------------------------------------------------
(* ColorValue.create on the spellings of one colour: the three hexadecimal *)
(* digits of its short form, in either case                                 *)

HexDigits ==
    {"0", "1", "2", "3", "4", "5", "6", "7", "8", "9",
     "a", "b", "c", "d", "e", "f", "A", "B", "C", "D", "E", "F"}

\* the long form of three digits: each digit twice
Doubled(d) == <<d[1], d[1], d[2], d[2], d[3], d[3]>>

\* the decimal form of three digits: the components, each 17 times its digit
DecimalForm(d) ==
    Join(<<NumToString(17 * DigitValue(d[1], 16), 10),
           NumToString(17 * DigitValue(d[2], 16), 10),
           NumToString(17 * DigitValue(d[3], 16), 10)>>, <<"-">>)

\* ColorValue.create(spelling), with toString() of the colour made
Created(color) ==
    [ok |-> color.ok, v |-> color.v,
     text |-> IF color.ok THEN ColorToString(color.v) ELSE <<>>]

ColorInit ==
    /\ \E d1 \in HexDigits, d2 \in HexDigits, d3 \in HexDigits :
          reqA = << <<"color", Str(<<d1, d2, d3>>)>> >>
    /\ outA = Null
    /\ OthersIdle

\* ColorValue.create is called on each spelling of the colour
CreateColors ==
    /\ outA = Null
    /\ \E d \in {Prop(reqA, "color").v} :
          outA' = [short |-> Created(ColorCreate(d)),
                   shortMarked |-> Created(ColorCreate(<<"#">> \o d)),
                   long |-> Created(ColorCreate(Doubled(d))),
                   longMarked |-> Created(ColorCreate(<<"#">> \o Doubled(d))),
                   decimal |-> Created(ColorCreate(DecimalForm(d)))]
    /\ UNCHANGED <<reqA, reqB, outB, edits, storeVars, execVars, rateVars>>

ColorNext == CreateColors

SpecColor == ColorInit /\ [][ColorNext]_vars

\* C20: for three hexadecimal digits in any case, ColorValue.create of the
\* short form, the long form, each with and without the leading '#', and of
\* the dash-separated decimal form of the same components makes the same
\* RGB triple, with the same toString().
C20_SameColor ==
    outA # Null =>
        \A f \in {"shortMarked", "long", "longMarked", "decimal"} :
            /\ outA.short.ok
            /\ outA[f].ok
            /\ outA[f].v = outA.short.v
            /\ outA[f].text = outA.short.text
            /\ outA.short.v.r = 17 * DigitValue(Prop(reqA, "color").v[1], 16)

\* C20, witness: the spellings of a colour written with letters of both
\* cases have all been made into the one colour
C20_Witness ==
    /\ outA # Null
    /\ reqA = << <<"color", Str(<<"a", "B", "3">>)>> >>
    /\ outA.decimal.ok
    /\ outA.decimal.v = [r |-> 170, g |-> 187, b |-> 51]
    /\ outA.long.text = <<"#", "a", "a", "b", "b", "3", "3">>

----------------------------------------------------------------------------
(* ColorValue.create on colour texts, well formed and not: a body of a few *)
(* characters with or without the leading '#', and three parts joined by    *)
(* dashes                                                                    *)

BodyChars == {"1", "f", "g", "-"}

PartTexts ==
    {<<"0">>, <<"2", "5", "5">>, <<"2", "5", "6">>, <<"1", ".", "5">>,
     <<"1", "f">>, <<" ", "7">>, <<>>}

\* the sequences of n characters of BodyChars
Bodies(n) == {[i \in 1..n |-> f[i]] : f \in [1..n -> BodyChars]}

ColorTexts ==
    UNION {{m \o b : m \in {<<>>, <<"#">>}, b \in Bodies(n)} : n \in 2..MaxColorBody}
    \cup {Join(<<p1, p2, p3>>, <<"-">>) : p1 \in PartTexts, p2 \in PartTexts, p3 \in PartTexts}
    \cup {Join(<<p1, p2>>, <<"-">>) : p1 \in PartTexts, p2 \in PartTexts}

ColorTextInit ==
    /\ \E text \in ColorTexts : reqA = << <<"color", Str(text)>> >>
    /\ outA = Null
    /\ OthersIdle

\* ColorValue.create is called on the text
CreateColor ==
    /\ outA = Null
    /\ outA' = Created(ColorCreate(Prop(reqA, "color").v))
    /\ UNCHANGED <<reqA, reqB, outB, edits, storeVars, execVars, rateVars>>

ColorTextNext == CreateColor

SpecColorText == ColorTextInit /\ [][ColorTextNext]_vars

\* an optional '#' and then exactly 3 or exactly 6 hexadecimal digits
IsHexForm(text) ==
    IsBareHex(IF Len(text) > 0 /\ text[1] = "#" THEN Tail(text) ELSE text)

\* a decimal integer within 0..255
IsByteText(part) == AllDigits(part) /\ ParseInt(part, 10).v <= 255

\* exactly three decimal integers within 0..255, separated by dashes
IsDecimalForm(text) ==
    /\ Len(Split(text, "-")) = 3
    /\ \A i \in 1..3 : IsByteText(Split(text, "-")[i])

\* C21: ColorValue.create throws for every input that is neither an
\* optional '#' with exactly 3 or 6 hexadecimal digits nor three decimal
\* integers within 0..255 separated by dashes; every colour it makes has its
\* three components within 0..255.
C21_Rejects ==
    (outA # Null /\ outA.ok) =>
        /\ IsHexForm(Prop(reqA, "color").v) \/ IsDecimalForm(Prop(reqA, "color").v)
        /\ RGBComponentValid(outA.v.r)
        /\ RGBComponentValid(outA.v.g)
        /\ RGBComponentValid(outA.v.b)

----------------------------------------------------------------------------
(* DataPayload.create on payloads around the length limit: a head and then *)
(* one character repeated up to the length                                   *)

DataLengths ==
    {0, 1, 2, 3, 7, 8, 9, MaxDataLength - 2, MaxDataLength - 1, MaxDataLength,
     MaxDataLength + 1, MaxDataLength + 2, MaxDataLength + 5}

DataHeads ==
    {<<>>, <<" ">>, <<" ", "a">>, <<"h", "t", "t", "p", ":", "/", "/">>,
     <<"f", "t", "p", ":", "/", "/", "h">>, <<"m", "a", "i", "l", "t", "o", ":">>}

DataFills == {"a", " ", "/"}

\* head, then fill up to n characters
Filled(head, fill, n) == head \o [i \in 1..(n - Len(head)) |-> fill]

DataInit ==
    /\ \E head \in DataHeads, fill \in DataFills, n \in DataLengths :
          /\ n >= Len(head)
          /\ reqA = << <<"data", Str(Filled(head, fill, n))>> >>
    /\ outA = Null
    /\ OthersIdle

\* DataPayload.create is called on the data of the request
CreatePayload ==
    /\ outA = Null
    /\ \E data \in {Prop(reqA, "data")} :
          outA' = [ok |-> DataPayloadCreate(data).ok,
                   content |-> DataPayloadCreate(data).v,
                   message |-> DataPayloadMessage(data)]
    /\ UNCHANGED <<reqA, reqB, outB, edits, storeVars, execVars, rateVars>>

SpecData == DataInit /\ [][CreatePayload]_vars

\* the payload is empty or holds white space only
IsBlank(text) == \A i \in 1..Len(text) : IsWhiteSpace(text[i])

\* C22: DataPayload.create succeeds for every payload that is not blank, has
\* at most 900 characters and no URI scheme prefix; it fails with the
\* exceeded-length error, which names 900, for every payload of 901 or more
\* characters; a blank payload is rejected as empty before its length is
\* looked at.
C22_LengthLimit ==
    outA # Null =>
        LET text == Prop(reqA, "data").v
        IN  /\ (~IsBlank(text) /\ Len(text) <= 900 /\ ~DataIsUrl(text)) =>
                  (outA.ok /\ outA.message = "")
            /\ (~IsBlank(text) /\ Len(text) >= 901) =>
                  (~outA.ok
                   /\ outA.message = "Data content cannot exceed 900 characters")
            /\ IsBlank(text) =>
                  (~outA.ok /\ outA.message = "Data content cannot be empty")

\* C22, witness: a payload of exactly 900 characters has been made, with
\* white space at its head
C22_Witness ==
    /\ outA # Null
    /\ reqA # <<>>
    /\ Len(Prop(reqA, "data").v) = 900
    /\ Prop(reqA, "data").v[1] = " "
    /\ outA.ok
    /\ Len(outA.content) = 899

-----------------------------------------------------------------------------
(* The create-qr-code routes: ValidationMiddleware.rateLimit,               *)
(* ValidationMiddleware.validateQRCodeRequest, the parameter logging and    *)
(* QRCodeController.generateQRCode, in the order initializeRoutes mounts    *)
(* them                                                                     *)

\* the options initializeRoutes passes to rateLimit, scaled down
windowMs == 2000
maxRequests == 2

MaxArrivals == 4
MaxSeconds == 5

\* what a query string or a JSON body holds under a name
JsonString(s) == [type |-> "string", v |-> s]
JsonNumber(n) == [type |-> "number", n |-> n]
Undefined == [type |-> "undefined"]

\* req.query[name] or req.body[name]
Param(params, name) ==
    IF \E i \in 1..Len(params) : params[i][1] = name
    THEN params[CHOOSE i \in 1..Len(params) : params[i][1] = name][2]
    ELSE Undefined

\* !value
Falsy(value) ==
    \/ value.type = "undefined"
    \/ value.type = "string" /\ value.v = <<>>
    \/ value.type = "number" /\ value.n = 0

\* Math.ceil(ms / 1000)
CeilSeconds(ms) == -((-ms) \div MsPerSecond)

ClientA == <<"1", "0", ".", "0", ".", "0", ".", "1">>
ClientB == <<"1", "0", ".", "0", ".", "0", ".", "2">>
Clients == {ClientA, ClientB}

getClientId(req) ==
    IF Truthy(req.ip) THEN req.ip.v
    ELSE IF Truthy(req.remoteAddress) THEN req.remoteAddress.v
    ELSE <<"u", "n", "k", "n", "o", "w", "n">>

\* requests.has(clientId) and requests.get(clientId)
HasClient(map, clientId) == \E i \in 1..Len(map) : map[i].id = clientId
ClientData(map, clientId) == map[CHOOSE i \in 1..Len(map) : map[i].id = clientId]

\* requests.set(clientId, clientData)
SetClient(map, clientData) ==
    IF HasClient(map, clientData.id)
    THEN [i \in 1..Len(map) |-> IF map[i].id = clientData.id THEN clientData ELSE map[i]]
    ELSE Append(map, clientData)

\* rateLimit: the entries whose resetTime lies before the cutoff are deleted
RateSwept(map, cutoff) == SelectSeq(map, LAMBDA e : ~(e.resetTime < cutoff))

\* rateLimit: the client's entry is looked up, or created with a count of 0
RateEntered(swept, clientId, t) ==
    IF ~HasClient(swept, clientId) \/ ClientData(swept, clientId).resetTime < t - windowMs
    THEN SetClient(swept, [id |-> clientId, count |-> 0, resetTime |-> t + windowMs])
    ELSE swept

\* rateLimit: clientData.count++
RateCounted(map, clientId) ==
    [i \in 1..Len(map) |->
        IF map[i].id = clientId THEN [map[i] EXCEPT !.count = @ + 1] ELSE map[i]]

\* the response of a middleware that answers, and of one that calls next()
Answer(status, code) ==
    [status |-> status, code |-> code, resetIn |-> NoNum, details |-> <<>>]
TooMany(resetIn) ==
    [status |-> 429, code |-> "RATE_LIMIT_EXCEEDED", resetIn |-> Num(resetIn),
     details |-> <<>>]
Rejected(errors) ==
    [status |-> 400, code |-> "INVALID_REQUEST_STRUCTURE", resetIn |-> NoNum,
     details |-> errors]
PassedOn == [next |-> TRUE]

\* rateLimit, from the client's entry on: the check of the count
RateChecked(entered, clientId, t) ==
    IF ClientData(entered, clientId).count >= maxRequests
    THEN [map |-> entered,
          res |-> TooMany(CeilSeconds(ClientData(entered, clientId).resetTime - t)),
          headers |-> <<>>]
    ELSE [map |-> RateCounted(entered, clientId),
          res |-> PassedOn,
          headers |->
              [limit |-> maxRequests,
               remaining |-> maxRequests - (ClientData(entered, clientId).count + 1),
               reset |-> CeilSeconds(ClientData(entered, clientId).resetTime)]]

\* the middleware rateLimit returns, run for a request at time t
rateLimit(map, req, t) ==
    RateChecked(RateEntered(RateSwept(map, t - windowMs), getClientId(req), t),
                getClientId(req), t)

\* String.prototype.replace(/javascript:/gi, '') on lower-case text
RECURSIVE RemovePattern(_, _)
RemovePattern(text, pattern) ==
    IF Len(text) < Len(pattern) THEN text
    ELSE IF SubSeq(text, 1, Len(pattern)) = pattern
    THEN RemovePattern(SubSeq(text, Len(pattern) + 1, Len(text)), pattern)
    ELSE <<Head(text)>> \o RemovePattern(Tail(text), pattern)

JavaScriptScheme == <<"j", "a", "v", "a", "s", "c", "r", "i", "p", "t", ":">>

\* sanitizeObject, on text without "<" and "=": the script elements and the
\* event handler attributes it also removes cannot occur
sanitizeObject(params) ==
    [i \in 1..Len(params) |->
        IF params[i][2].type = "string"
        THEN <<params[i][1], JsonString(RemovePattern(Trim(params[i][2].v), JavaScriptScheme))>>
        ELSE params[i]]

\* the messages validateRequestStructure collects for one parameter
DataErrors(data) ==
    IF Falsy(data) THEN <<"Missing required parameter: data">>
    ELSE IF data.type # "string" THEN <<"Parameter \"data\" must be a string">>
    ELSE <<>>
TextErrors(value, message) ==
    IF ~Falsy(value) /\ value.type # "string" THEN <<message>> ELSE <<>>
NumberErrors(value, message) ==
    IF value.type # "undefined" /\ value.type # "number" THEN <<message>> ELSE <<>>

validateRequestStructure(params) ==
    DataErrors(Param(params, "data"))
    \o TextErrors(Param(params, "size"), "Parameter \"size\" must be a string")
    \o TextErrors(Param(params, "format"), "Parameter \"format\" must be a string")
    \o TextErrors(Param(params, "color"), "Parameter \"color\" must be a string")
    \o TextErrors(Param(params, "bgcolor"), "Parameter \"bgcolor\" must be a string")
    \o NumberErrors(Param(params, "margin"), "Parameter \"margin\" must be a number")
    \o NumberErrors(Param(params, "qzone"), "Parameter \"qzone\" must be a number")

\* the middleware validateQRCodeRequest returns, with sanitizeInput enabled
validateQRCodeRequest(req) ==
    IF req.large THEN Answer(413, "REQUEST_TOO_LARGE")
    ELSE IF req.method = "POST" /\ ~req.json THEN Answer(400, "INVALID_CONTENT_TYPE")
    ELSE IF validateRequestStructure(sanitizeObject(req.params)) # <<>>
    THEN Rejected(validateRequestStructure(sanitizeObject(req.params)))
    ELSE PassedOn

\* QRCodeController.getErrorStatusCode
getErrorStatusCode(errorCode) ==
    CASE errorCode = "VALIDATION_ERROR" -> 400
      [] errorCode = "NOT_FOUND" -> 404
      [] errorCode = "RATE_LIMIT_EXCEEDED" -> 429
      [] errorCode = "GENERATION_ERROR" -> 422
      [] OTHER -> 500

\* what GenerateQRCodeUseCase.execute may answer: success, or one of its errors
UseCaseResults == {"", "VALIDATION_ERROR", "GENERATION_ERROR"}

\* QRCodeController.generateQRCode, on the sanitized request; result is what
\* execute answers if it is called
generateQRCode(params, result) ==
    IF Falsy(Param(params, "data")) THEN Answer(400, "MISSING_REQUIRED_PARAMETER")
    ELSE IF result = "" THEN Answer(200, "")
    ELSE Answer(getErrorStatusCode(result), result)

\* the handlers of the route, one after the other, from the validation on
Handled(req, result) ==
    IF validateQRCodeRequest(req) # PassedOn THEN validateQRCodeRequest(req)
    ELSE generateQRCode(sanitizeObject(req.params), result)

\* the requests that arrive: query strings hold strings only
QueryStrings ==
    { <<>>,
      << <<"data", JsonString(<<"h", "i">>)>> >>,
      << <<"data", JsonString(<<" ">>)>> >> }
JsonBodies ==
    { <<>>,
      << <<"data", JsonString(<<"h", "i">>)>> >>,
      << <<"data", JsonString(JavaScriptScheme)>> >>,
      << <<"data", JsonNumber(5)>>, <<"margin", JsonNumber(2)>> >> }
Senders ==
    { [ip |-> Str(ClientA), remoteAddress |-> Str(ClientA)],
      [ip |-> Str(ClientB), remoteAddress |-> Str(ClientB)],
      [ip |-> NoStr, remoteAddress |-> Str(ClientB)] }
HttpShapes ==
    { [method |-> "GET", json |-> FALSE, large |-> FALSE, params |-> q] : q \in QueryStrings }
    \cup { [method |-> "POST", json |-> TRUE, large |-> FALSE, params |-> b] : b \in JsonBodies }
    \cup { [method |-> "POST", json |-> FALSE, large |-> FALSE, params |-> <<>>],
           [method |-> "POST", json |-> TRUE, large |-> TRUE, params |-> <<>>] }
HttpRequest(sender, shape) ==
    [ip |-> sender.ip, remoteAddress |-> sender.remoteAddress,
     method |-> shape.method, json |-> shape.json, large |-> shape.large,
     params |-> shape.params]

RateInit ==
    /\ requests = <<>>
    /\ served = [c \in Clients |-> <<>>]
    /\ arrivals = 0
    /\ reply = Null
    /\ now = 0
    /\ ticks = 0
    /\ maxKeys = MaxKeysBound
    /\ cache = <<>>
    /\ stats = ZeroStats
    /\ nops = 0
    /\ last = [op |-> "new"]
    /\ lastSet = NoSets
    /\ KeyIdle
    /\ ExecIdle

\* a second passes
SecondPasses ==
    /\ ticks < MaxSeconds
    /\ now' = now + MsPerSecond
    /\ ticks' = ticks + 1
    /\ UNCHANGED <<maxKeys, cache, stats, nops, last, lastSet, keyVars, execVars, rateVars>>

\* a request arrives at a create-qr-code route and is answered
Arrive(req, result) ==
    /\ arrivals < MaxArrivals
    /\ arrivals' = arrivals + 1
    /\ \E limited \in {rateLimit(requests, req, now)} :
          /\ requests' = limited.map
          /\ served' = IF limited.res = PassedOn
                       THEN [served EXCEPT ![getClientId(req)] = Append(@, now)]
                       ELSE served
          /\ reply' = [client |-> getClientId(req),
                       method |-> req.method,
                       params |-> req.params,
                       at |-> now,
                       headers |-> limited.headers,
                       res |-> IF limited.res = PassedOn
                               THEN Handled(req, result)
                               ELSE limited.res]
    /\ UNCHANGED <<storeVars, keyVars, execVars>>

\* execute is called for the requests that come through to it
Executed(req) ==
    /\ validateQRCodeRequest(req) = PassedOn
    /\ ~Falsy(Param(sanitizeObject(req.params), "data"))

Arrivals ==
    \E sender \in Senders, shape \in HttpShapes :
        \E result \in IF Executed(HttpRequest(sender, shape)) THEN UseCaseResults ELSE {""} :
            Arrive(HttpRequest(sender, shape), result)

RateNext == SecondPasses \/ Arrivals

SpecRate == RateInit /\ [][RateNext]_vars

\* the requests of the client the rate limiter admitted from time t on and
\* before t + windowMs
AdmittedIn(client, t) ==
    {i \in 1..Len(served[client]) :
        served[client][i] >= t /\ served[client][i] < t + windowMs}

\* C23: for every client and every time interval of length windowMs, the rate
\* limiter admits at most maxRequests requests of that client; what comes on
\* top is answered 429 RATE_LIMIT_EXCEEDED.
C23_Quota ==
    served # <<>> =>
        \A client \in Clients : \A i \in 1..Len(served[client]) :
            Cardinality(AdmittedIn(client, served[client][i])) <= maxRequests

\* the latest request was answered 429 by the rate limiter
Blocked == reply # Null /\ reply.res.status = 429

\* C24: a client is answered 429 only up to the resetTime of its window, the
\* time its X-RateLimit-Reset header announced: a request after that time is
\* admitted with a fresh counter, and the resetIn of a 429 is never negative.
C24_Reset ==
    Blocked =>
        /\ reply.at <= ClientData(requests, reply.client).resetTime
        /\ reply.res.resetIn.v >= 0

\* the latest request had no data parameter, the rate limiter admitted it and
\* neither its size nor its content type was objected to
DataOmitted ==
    /\ reply # Null
    /\ ~Blocked
    /\ Param(reply.params, "data").type = "undefined"
    /\ reply.res.code \notin {"REQUEST_TOO_LARGE", "INVALID_CONTENT_TYPE"}

\* C25: a create-qr-code request without a data parameter is answered with
\* status 400 and the code MISSING_REQUIRED_PARAMETER, whichever handler of
\* the route finds the parameter missing.
C25_MissingData ==
    DataOmitted =>
        /\ reply.res.status = 400
        /\ reply.res.code = "MISSING_REQUIRED_PARAMETER"

----------------------------------------------------------------------------
(* GenerateQRCodeUseCase.execute, with any number of calls in flight. A    *)
(* call gives way to the others where it awaits: after validation, and     *)
(* while the renderer works. The cache is the in-memory repository, whose  *)
(* get and set complete within the call that makes them.                   *)

\* the requests the calls are made with
ExecRequests ==
    { << <<"data", Str(<<"h", "i">>)>> >>,
      << <<"data", Str(<<"h", "i">>)>>, <<"logo", Str(<<"g", "o", "o", "g", "l", "e">>)>> >>,
      << <<"data", Str(<<"y", "o">>)>>, <<"ecc", Str(<<"H">>)>> >>,
      << <<"data", Str(<<>>)>> >>,
      << <<"data", Str(<<"EURO">>)>>, <<"charset-source", Str(<<"I", "S", "O", "-", "8", "8", "5", "9", "-", "1">>)>> >> }

ZeroMetrics ==
    [qr_generation_errors_validation |-> 0,
     qr_generation_errors_generation |-> 0,
     qr_cache_hits_total |-> 0,
     qr_cache_misses_total |-> 0,
     qr_codes_generated_total |-> 0]

\* a call not made yet. after, stored, storedAt, ttl, inForce, current,
\* inForceAtLookup and currentAtLookup are history, not state of the program:
\*   after            the calls that had returned when this one was made
\*   stored           this call has put its artifact into the cache
\*   ttl              the seconds the entry it stored had to live
\*   inForce          the key has not been evicted, deleted, expired away or
\*                    cleared since this call stored it
\*   current          inForce, and no other call has stored the key since
\*   inForceAtLookup  the calls inForce for this call's key, with their time
\*                    to live not over, when this call looked into the cache
\*   currentAtLookup  the same for current
NoExec ==
    [pc |-> "idle", request |-> <<>>, key |-> <<>>, built |-> FALSE,
     image |-> <<>>, complex |-> FALSE, renders |-> 0, response |-> Null,
     raised |-> FALSE, after |-> {}, stored |-> FALSE, storedAt |-> 0, ttl |-> 0,
     inForce |-> FALSE, current |-> FALSE,
     inForceAtLookup |-> {}, currentAtLookup |-> {}]

\* the image the renderer makes is determined by the configuration it is
\* given: it stands here for the fields of that configuration
Rendered(configuration) == HashComponents(configuration)

\* isComplexQRCode of the design: a long payload, a large canvas or level H
ComplexDataLength == 200
ComplexWidth == 500

IsComplex(configuration) ==
    \/ Len(configuration.data) > ComplexDataLength
    \/ configuration.size.width > ComplexWidth
    \/ configuration.errorCorrectionLevel = <<"H">>

ValidationError == [success |-> FALSE, code |-> "VALIDATION_ERROR"]

GenerationError == [success |-> FALSE, code |-> "GENERATION_ERROR"]

Success(qrCode, cacheHit) ==
    [success |-> TRUE, id |-> qrCode.id, image |-> qrCode.image, cacheHit |-> cacheHit]

\* a validation whose errors do not end the call
ValidatedAsValid(request, out, done) ==
    [NoExec EXCEPT !.pc = "validated",
                   !.request = request,
                   !.key = out.key,
                   !.built = out.built,
                   !.image = IF out.built THEN Rendered(out.configuration) ELSE <<>>,
                   !.complex = out.built /\ IsComplex(out.configuration),
                   !.after = done]

\* execute up to its first await: the validation
Validated(request, out, done) ==
    [NoExec EXCEPT !.pc = IF out.valid THEN "validated" ELSE "done",
                   !.request = request,
                   !.key = out.key,
                   !.built = out.built,
                   !.image = IF out.built THEN Rendered(out.configuration) ELSE <<>>,
                   !.complex = out.built /\ IsComplex(out.configuration),
                   !.response = IF out.valid THEN Null ELSE ValidationError,
                   !.after = done]

\* buildConfiguration has thrown: the catch block of execute
BuildFailed(x) == [x EXCEPT !.pc = "done", !.response = GenerationError]

\* a lookup that never answers from the cache
LookedUpAsMiss(x, cached, inForceNow, currentNow) ==
    [x EXCEPT !.pc = "rendering", !.renders = @ + 1,
              !.inForceAtLookup = inForceNow, !.currentAtLookup = currentNow]

\* the cache lookup has returned cached: a hit returns, a miss calls the renderer
LookedUp(x, cached, inForceNow, currentNow) ==
    IF cached # Null
    THEN [x EXCEPT !.pc = "done", !.response = Success(cached, TRUE),
                   !.inForceAtLookup = inForceNow, !.currentAtLookup = currentNow]
    ELSE [x EXCEPT !.pc = "rendering", !.renders = @ + 1,
                   !.inForceAtLookup = inForceNow, !.currentAtLookup = currentNow]

\* a renderer error that is tried once more instead of being reported
RenderFailedRetried(x) == [x EXCEPT !.renders = @ + 1]

\* the renderer has thrown: the catch block of execute
RenderFailed(x) == [x EXCEPT !.pc = "done", !.response = GenerationError]

\* the renderer has returned qrCode, and set has stored it
RenderedAndStored(x, qrCode, entry) ==
    [x EXCEPT !.pc = "done", !.response = Success(qrCode, FALSE),
              !.stored = TRUE, !.storedAt = entry.createdAt,
              !.ttl = (entry.expiresAt - entry.createdAt) \div MsPerSecond,
              !.inForce = TRUE, !.current = TRUE]

\* the history of the other calls after the cache has gone from c to c1 and
\* the key stored, if any, was stored by another call
Outdated(x, c1, storedKeys) ==
    [x EXCEPT !.inForce = @ /\ CacheHas(c1, x.key),
              !.current = @ /\ CacheHas(c1, x.key) /\ x.key \notin storedKeys]

OutdatedAll(xs, c1, storedKeys) ==
    [e \in DOMAIN xs |-> Outdated(xs[e], c1, storedKeys)]

\* the calls whose stored artifact is, by flag, still to be found at time t
Live(xs, flag, key, t) ==
    {a \in DOMAIN xs : /\ xs[a].stored
                       /\ xs[a][flag]
                       /\ xs[a].key = key
                       /\ t <= xs[a].storedAt + xs[a].ttl * MsPerSecond}

Done(xs) == {a \in DOMAIN xs : xs[a].pc = "done"}

Count(counter) == [metrics EXCEPT ![counter] = @ + 1]

ExecInit ==
    /\ execs = [e \in 1..MaxExecs |-> NoExec]
    /\ nextId = 1
    /\ metrics = ZeroMetrics
    /\ now = 0
    /\ ticks = 0
    /\ maxKeys \in 1..MaxKeysBound
    /\ cache = <<>>
    /\ stats = ZeroStats
    /\ nops = 0
    /\ last = [op |-> "new"]
    /\ lastSet = NoSets
    /\ RateIdle
    /\ KeyIdle

\* execute(request) is called and runs to its first await
Begin(e, request) ==
    /\ execs[e].pc = "idle"
    /\ \A a \in 1..(e - 1) : execs[a].pc # "idle"
    /\ \E out \in {Derive(request)} :
          /\ execs' = [execs EXCEPT ![e] = Validated(request, out, Done(execs))]
          /\ metrics' = IF out.valid THEN metrics
                        ELSE Count("qr_generation_errors_validation")
    /\ UNCHANGED <<storeVars, keyVars, nextId, rateVars>>

\* buildConfiguration throws, and execute returns from its catch block
BuildFails(e) ==
    /\ execs[e].pc = "validated"
    /\ ~execs[e].built
    /\ execs' = [execs EXCEPT ![e] = BuildFailed(@)]
    /\ metrics' = Count("qr_generation_errors_generation")
    /\ UNCHANGED <<storeVars, keyVars, nextId, rateVars>>

\* buildConfiguration, getHashKey and the cache lookup; on a hit execute
\* returns, on a miss it calls the renderer
Lookup(e) ==
    /\ execs[e].pc = "validated"
    /\ execs[e].built
    /\ \E r \in {UseCaseGet(cache, stats, now, execs[e].key, FALSE)} :
          /\ cache' = r.cache
          /\ stats' = r.stats
          /\ execs' = [OutdatedAll(execs, r.cache, {}) EXCEPT ![e] =
                          LookedUp(execs[e], r.result,
                                   Live(execs, "inForce", execs[e].key, now),
                                   Live(execs, "current", execs[e].key, now))]
          /\ metrics' = IF r.result # Null THEN Count("qr_cache_hits_total")
                        ELSE Count("qr_cache_misses_total")
    /\ UNCHANGED <<now, ticks, maxKeys, nops, last, lastSet, keyVars, nextId, rateVars>>

\* the renderer returns a new artifact; execute stores it under the key,
\* with no ttl of its own, and returns it
RenderSucceeds(e) ==
    /\ execs[e].pc = "rendering"
    /\ \E qrCode \in {[id |-> nextId, image |-> execs[e].image]} :
       \E r \in {UseCaseSet(cache, stats, now, maxKeys, execs[e].key, qrCode, NoNum, FALSE)} :
          /\ cache' = r.cache
          /\ stats' = r.stats
          /\ execs' = [OutdatedAll(execs, r.cache, {execs[e].key}) EXCEPT ![e] =
                          RenderedAndStored(execs[e], qrCode,
                                            CacheEntry(r.cache, execs[e].key))]
    /\ nextId' = nextId + 1
    /\ metrics' = Count("qr_codes_generated_total")
    /\ UNCHANGED <<now, ticks, maxKeys, nops, last, lastSet, keyVars, rateVars>>

\* the renderer throws, and execute returns from its catch block
RenderFails(e) ==
    /\ execs[e].pc = "rendering"
    /\ execs' = [execs EXCEPT ![e] = RenderFailed(@)]
    /\ metrics' = Count("qr_generation_errors_generation")
    /\ UNCHANGED <<storeVars, keyVars, nextId, rateVars>>

\* an hour passes, the default time to live
Elapse ==
    /\ ticks < MaxTicks
    /\ now' = now + DefaultTTL * MsPerSecond
    /\ ticks' = ticks + 1
    /\ UNCHANGED <<maxKeys, cache, stats, nops, last, lastSet, keyVars, execVars, rateVars>>

\* the cache is cleared through the use case
ClearCache ==
    /\ nops < MaxClears
    /\ \E r \in {UseCaseClear(cache, stats, FALSE)} :
          /\ cache' = r.cache
          /\ stats' = r.stats
          /\ execs' = OutdatedAll(execs, r.cache, {})
    /\ nops' = nops + 1
    /\ UNCHANGED <<now, ticks, maxKeys, last, lastSet, keyVars, nextId, metrics, rateVars>>

ExecNext ==
    \/ \E e \in 1..MaxExecs, request \in ExecRequests : Begin(e, request)
    \/ \E e \in 1..MaxExecs : BuildFails(e)
    \/ \E e \in 1..MaxExecs : Lookup(e)
    \/ \E e \in 1..MaxExecs : RenderSucceeds(e)
    \/ \E e \in 1..MaxExecs : RenderFails(e)
    \/ Elapse
    \/ ClearCache

SpecExec == ExecInit /\ [][ExecNext]_vars

\* call a has missed, rendered and stored its artifact
MissedAndStored(a) == execs[a].stored

\* call b is the next call with the parameters of a made after a returned
NextSame(a, b) ==
    /\ a \in execs[b].after
    /\ execs[b].request = execs[a].request
    /\ \A c \in 1..(b - 1) :
          ~(a \in execs[c].after /\ execs[c].request = execs[a].request)

HasLookedUp(b) == execs[b].pc \in {"rendering", "done"}

\* b has answered from the cache with the artifact of a, without rendering
HitWith(a, b) ==
    /\ execs[b].pc = "done"
    /\ execs[b].response.success
    /\ execs[b].response.cacheHit
    /\ execs[b].response.id = execs[a].response.id
    /\ execs[b].response.image = execs[a].response.image
    /\ execs[b].renders = 0

\* C6: after a call has completed with a miss and a successful render, the
\* next call with the same parameters, looking up before the entry's time to
\* live is over and with no eviction, delete or clear in between, returns
\* cacheHit = true with the same id and image and does not render.
C6_MissThenHit ==
    \A a, b \in 1..MaxExecs :
        (/\ MissedAndStored(a)
         /\ NextSame(a, b)
         /\ HasLookedUp(b)
         /\ a \in execs[b].inForceAtLookup)
        => HitWith(a, b)

\* C6, amended: the same, when moreover no other call has stored the key
\* between the first call's store and the second call's lookup.
C6_MissThenHitUnlessOverwritten ==
    \A a, b \in 1..MaxExecs :
        (/\ MissedAndStored(a)
         /\ NextSame(a, b)
         /\ HasLookedUp(b)
         /\ a \in execs[b].currentAtLookup)
        => HitWith(a, b)

\* C6, witness: the second of three calls answers from the cache with the
\* artifact the first has rendered, and the third with that artifact too
C6_Witness ==
    /\ execs # <<>>
    /\ MissedAndStored(1)
    /\ NextSame(1, 2)
    /\ 1 \in execs[2].currentAtLookup
    /\ HitWith(1, 2)
    /\ execs[3].pc = "done"
    /\ execs[3].request = execs[1].request
    /\ HitWith(1, 3)

\* the call has passed validation and its cache lookup has missed
Missed(e) ==
    \/ execs[e].pc = "rendering"
    \/ /\ execs[e].pc = "done"
       /\ execs[e].built
       /\ \/ execs[e].response = GenerationError
          \/ execs[e].response.success /\ ~execs[e].response.cacheHit

Hit(e) ==
    /\ execs[e].pc = "done"
    /\ execs[e].response.success
    /\ execs[e].response.cacheHit

\* C7: a call invokes the renderer at most once: exactly once when
\* validation has passed and the lookup has missed, a failed render
\* included, and never when the lookup has hit.
C7_SingleRender ==
    \A e \in DOMAIN execs :
        /\ execs[e].renders <= 1
        /\ Missed(e) => execs[e].renders = 1
        /\ Hit(e) => execs[e].renders = 0
        /\ ~Missed(e) => execs[e].renders = 0

\* C7, witness: one call has rendered once and failed, another has hit the
\* cache without rendering
C7_Witness ==
    /\ execs # <<>>
    /\ \E e \in 1..MaxExecs :
          execs[e].pc = "done" /\ execs[e].built
          /\ execs[e].response = GenerationError /\ execs[e].renders = 1
    /\ \E e \in 1..MaxExecs : Hit(e) /\ execs[e].renders = 0

\* the renderer has failed in call e
RenderHasFailed(e) ==
    execs[e].pc = "done" /\ execs[e].built /\ execs[e].response = GenerationError

\* C8: when the renderer fails, execute throws that failure to its caller,
\* and the call stores no entry.
C8_Propagates ==
    \A e \in DOMAIN execs :
        RenderHasFailed(e) => (execs[e].raised /\ ~execs[e].stored)

\* C9: the entry stored for a complex configuration is given a strictly
\* longer time to live than the entry stored for a simple one.
C9_LongerTTL ==
    \A a, b \in DOMAIN execs :
        (execs[a].stored /\ execs[b].stored /\ execs[a].complex /\ ~execs[b].complex)
        => execs[a].ttl > execs[b].ttl

\* the entries the store holds for key
EntriesFor(key) == {i \in 1..Len(cache) : cache[i].key = key}

\* calls a and b of the same request were in flight together, and both have
\* missed, rendered and stored
BothRendered(a, b) ==
    /\ a # b
    /\ execs[a].request = execs[b].request
    /\ a \notin execs[b].after
    /\ b \notin execs[a].after
    /\ execs[a].pc = "done" /\ execs[a].stored /\ execs[a].renders = 1
    /\ execs[b].pc = "done" /\ execs[b].stored /\ execs[b].renders = 1

\* C12: two concurrent calls with the same configuration, not yet cached,
\* may both miss and both render; when both have completed the store holds
\* a single entry for their key (as long as the key has not been removed
\* since), and never more than one.
C12_SingleEntry ==
    /\ \A i \in 1..Len(cache) : Cardinality(EntriesFor(cache[i].key)) = 1
    /\ execs # <<>> =>
          \A a, b \in 1..MaxExecs :
              (BothRendered(a, b) /\ (execs[a].inForce \/ execs[b].inForce))
              => Cardinality(EntriesFor(execs[a].key)) = 1

\* C12, witness: two calls in flight together have both missed and the
\* renderer has made two artifacts for the one key, of which the store
\* holds one
C12_Witness ==
    /\ execs # <<>>
    /\ BothRendered(1, 2)
    /\ execs[1].response.id # execs[2].response.id
    /\ ~execs[1].response.cacheHit
    /\ ~execs[2].response.cacheHit
    /\ metrics.qr_cache_misses_total = 2
    /\ metrics.qr_codes_generated_total = 2
    /\ Cardinality(EntriesFor(execs[1].key)) = 1

-----------------------------------------------------------------------------
(* GenerateQRCodeUseCase.execute over a repository whose set may throw: no  *)
(* time passes and the cache is not cleared                                 *)

\* the renderer has returned qrCode and the cache set has failed: the call
\* of set is not awaited, and execute returns the artifact
RenderedUnstoredAsError(x, qrCode) == [x EXCEPT !.pc = "done", !.response = GenerationError]

RenderedUnstored(x, qrCode) ==
    [x EXCEPT !.pc = "done", !.response = Success(qrCode, FALSE)]

\* the renderer returns a new artifact, and the repository throws in set
RenderSucceedsSetFails(e) ==
    /\ execs[e].pc = "rendering"
    /\ \E qrCode \in {[id |-> nextId, image |-> execs[e].image]} :
       \E r \in {UseCaseSet(cache, stats, now, maxKeys, execs[e].key, qrCode, NoNum, TRUE)} :
          /\ cache' = r.cache
          /\ stats' = r.stats
          /\ execs' = [execs EXCEPT ![e] = RenderedUnstored(execs[e], qrCode)]
    /\ nextId' = nextId + 1
    /\ metrics' = Count("qr_codes_generated_total")
    /\ UNCHANGED <<now, ticks, maxKeys, nops, last, lastSet, keyVars, rateVars>>

UnstoredNext ==
    \/ \E e \in 1..MaxExecs, request \in ExecRequests : Begin(e, request)
    \/ \E e \in 1..MaxExecs : BuildFails(e)
    \/ \E e \in 1..MaxExecs : Lookup(e)
    \/ \E e \in 1..MaxExecs : RenderSucceeds(e)
    \/ \E e \in 1..MaxExecs : RenderSucceedsSetFails(e)
    \/ \E e \in 1..MaxExecs : RenderFails(e)

SpecUnstored == ExecInit /\ [][UnstoredNext]_vars

\* the renderer returns an artifact to call e in this step
RenderReturns(e) ==
    /\ execs[e].pc = "rendering"
    /\ execs'[e].pc = "done"
    /\ nextId' = nextId + 1

C28_BuildSucceeds ==
    \A e \in 1..MaxExecs :
        /\ (execs[e].pc # "idle" /\ execs[e].response # ValidationError) =>
               execs[e].built
        /\ (execs[e].pc = "done" /\ execs[e].response = GenerationError) =>
               execs[e].renders = 1

\* call e is made in this step and its request fails validation
FailsValidation(e) ==
    /\ execs[e].pc = "idle"
    /\ execs'[e].pc # "idle"
    /\ ~Derive(execs'[e].request).valid

\* C29: a call of execute whose request fails validation returns at once
\* with VALIDATION_ERROR; it makes no cache get, no cache set and no call of
\* the renderer, and the entries and the hit and miss counters of the cache
\* are after the call what they were before it.
C29_NoCacheUse ==
    [][\A e \in 1..MaxExecs :
          FailsValidation(e) =>
              /\ execs'[e].pc = "done"
              /\ execs'[e].response = ValidationError
              /\ execs'[e].renders = 0
              /\ ~execs'[e].stored
              /\ cache' = cache
              /\ stats' = stats
              /\ nextId' = nextId
              /\ metrics'.qr_cache_hits_total = metrics.qr_cache_hits_total
              /\ metrics'.qr_cache_misses_total = metrics.qr_cache_misses_total]_vars

\* C29, witness: a call has failed validation after another call had stored
\* its artifact, and the cache holds that one entry after one miss
C29_Witness ==
    \E e \in 1..MaxExecs :
        /\ execs[e].response = ValidationError
        /\ \E a \in execs[e].after : execs[a].stored
        /\ Len(cache) = 1
        /\ stats.misses = 1
        /\ stats.sets = 1

----------------------------------------------------------------------------
(* CacheManagementUseCase over a repository that may throw in any call *)

FaultyInit ==
    /\ now = 0
    /\ ticks = 0
    /\ maxKeys \in 1..MaxKeysBound
    /\ cache = <<>>
    /\ stats = ZeroStats
    /\ nops = 0
    /\ last = [op |-> "new"]
    /\ lastSet = NoSets
    /\ RateIdle
    /\ KeyIdle
    /\ ExecIdle

\* the use case's operation op has come to r
Called(op, key, fails, r) ==
    /\ nops < MaxOps
    /\ cache' = r.cache
    /\ stats' = r.stats
    /\ last' = [op |-> op, key |-> key, fails |-> fails,
                raised |-> r.raised, result |-> r.result]
    /\ nops' = nops + 1
    /\ UNCHANGED <<now, ticks, maxKeys, lastSet, keyVars, execVars, rateVars>>

CallGet(k, fails) == Called("get", k, fails, UseCaseGet(cache, stats, now, k, fails))

CallSet(k, v, ttl, fails) ==
    Called("set", k, fails, UseCaseSet(cache, stats, now, maxKeys, k, v, ttl, fails))

CallDelete(k, fails) == Called("delete", k, fails, UseCaseDelete(cache, stats, k, fails))

CallClear(fails) == Called("clear", <<>>, fails, UseCaseClear(cache, stats, fails))

CallExists(k, fails) ==
    Called("exists", k, fails, UseCaseExists(cache, stats, now, k, fails))

CallGetStats(fails) == Called("getStats", <<>>, fails, UseCaseGetStats(cache, stats, fails))

FaultyNext ==
    \/ Tick
    \/ \E k \in StoreKeys, fails \in BOOLEAN : CallGet(k, fails)
    \/ \E k \in StoreKeys, v \in StoreValues, ttl \in StoreTTLs, fails \in BOOLEAN :
          CallSet(k, v, ttl, fails)
    \/ \E k \in StoreKeys, fails \in BOOLEAN : CallDelete(k, fails)
    \/ \E fails \in BOOLEAN : CallClear(fails)
    \/ \E k \in StoreKeys, fails \in BOOLEAN : CallExists(k, fails)
    \/ \E fails \in BOOLEAN : CallGetStats(fails)

SpecFaulty == FaultyInit /\ [][FaultyNext]_vars

\* C10: no operation of the use case throws to its caller; when the
\* repository throws, get returns null, set, delete, clear and exists return
\* false, getStats returns zeroes, and nothing is stored or otherwise changed.
C10_Swallowed ==
    [][nops' = nops + 1 =>
        /\ ~last'.raised
        /\ last'.fails =>
              /\ cache' = cache
              /\ stats' = stats
              /\ last'.op = "get" => last'.result = Null
              /\ last'.op \in {"set", "delete", "clear", "exists"} => last'.result = FALSE
              /\ last'.op = "getStats" =>
                    last'.result = [hits |-> 0, misses |-> 0, keys |-> 0, hitRate |-> 0]]_vars

\* C10, witness: a set on which the repository threw has returned false and
\* stored nothing, after a set that had stored its key
C10_Witness ==
    /\ last.op = "set"
    /\ last.fails
    /\ ~last.raised
    /\ last.result = FALSE
    /\ ~CacheHas(cache, last.key)
    /\ Len(cache) > 0

====
